---- MODULE Spec2Model ----
(***************************************************************************)
(* Model of the header analysis engine of EmailForensicsStandalone:        *)
(* EmailAnalyzer.analyze (email_core.py) as driven by AnalysisThread.run   *)
(* and EmailForensicsApp.analyze_headers (email_forensics_main.py).        *)
(*                                                                         *)
(* Representation.  A Python str is a sequence of one-character strings.   *)
(* The header text is a sequence of lines; a line is a record              *)
(* [name, value]: name = "" is a line without "name:" (value <<>> is a     *)
(* blank line).  An RFC 2822 date is abbreviated to the text "D" digit     *)
(* ["z"]: the digit is the instant in seconds, "z" is a time zone offset.  *)
(* Durations are kept in milliseconds.                                     *)
(***************************************************************************)
EXTENDS Integers, Sequences, FiniteSets, TLC

VARIABLES header_text, pc, thread_text, msg, result, progress, signal, warned

\* the IP lookup service: the address asked about, the clock in days, the
\* cache file of the address, and per service instance the lru_cache entry
\* of get_ip_info and the call in progress
VARIABLES query_ip, now, cache, memo, call

\* the blacklist checks: the answers of the DNS zones and the check in progress
VARIABLES dns, bl

\* the policy record parsers: the record text and the parsed components
VARIABLES record, policy

\* the DNS record lookups: the call in progress and the lru_cache of the service
VARIABLES txt, txt_cache

\* the desktop shell: its widgets and fields, the AnalysisThreads it has
\* started, and the signals queued for the GUI thread
VARIABLES shell, threads, events

analysisVars == <<header_text, pc, thread_text, msg, result, progress, signal, warned>>
lookupVars == <<query_ip, now, cache, memo, call>>
blacklistVars == <<dns, bl>>
policyVars == <<record, policy>>
dnsVars == <<txt, txt_cache>>
shellVars == <<shell, threads, events>>
serviceVars == <<lookupVars, blacklistVars, policyVars, dnsVars, shellVars>>
vars == <<analysisVars, serviceVars>>

(* ------------------------------ bounds --------------------------------- *)
MaxHops == 3
MaxTime == 2
MaxAuthFrags == 3
MaxDkimHeaders == 2

(* --------------------------- characters -------------------------------- *)
Digits == <<"0", "1", "2", "3", "4", "5", "6", "7", "8", "9">>
UpperCase == <<"A", "B", "C", "D", "E", "F", "G", "H", "I", "J", "K", "L", "M",
               "N", "O", "P", "Q", "R", "S", "T", "U", "V", "W", "X", "Y", "Z">>
LowerCase == <<"a", "b", "c", "d", "e", "f", "g", "h", "i", "j", "k", "l", "m",
               "n", "o", "p", "q", "r", "s", "t", "u", "v", "w", "x", "y", "z">>

IsDigit(c) == \E i \in 1..10 : Digits[i] = c
DigitVal(c) == (CHOOSE i \in 1..10 : Digits[i] = c) - 1
IsUpper(c) == \E i \in 1..26 : UpperCase[i] = c
IsLower(c) == \E i \in 1..26 : LowerCase[i] = c
IsAlpha(c) == IsUpper(c) \/ IsLower(c)
IsSpace(c) == c \in {" ", "\t", "\n", "\r"}
IsWordChar(c) == IsAlpha(c) \/ IsDigit(c) \/ c = "_"

\* str.lower()
LowerChar(c) == IF IsUpper(c) THEN LowerCase[CHOOSE i \in 1..26 : UpperCase[i] = c] ELSE c
LowerStr(s) == [i \in 1..Len(s) |-> LowerChar(s[i])]

SetMax(S) == CHOOSE x \in S : \A y \in S : y <= x
SetMin(S) == CHOOSE x \in S : \A y \in S : x <= y

\* s[i:] starts with pat
StartsAt(s, i, pat) ==
    /\ i >= 1
    /\ i + Len(pat) - 1 <= Len(s)
    /\ \A k \in 1..Len(pat) : s[i + k - 1] = pat[k]

\* membership in a regular expression character class
InClass(c, class) ==
    CASE class = "\\d" -> IsDigit(c)
      [] class = "\\s" -> IsSpace(c)
      [] class = "[a-zA-Z]" -> IsAlpha(c)
      [] class = "[^;]" -> c # ";"
      [] class = "[\\d.:a-fA-F]" -> IsDigit(c) \/ LowerChar(c) \in {"a", "b", "c", "d", "e", "f", ".", ":"}

\* last index of the longest run of characters of the class that starts at i
\* (i - 1 when the run is empty): a greedy repetition
RunEnd(s, i, class) ==
    SetMax({j \in (i - 1)..Len(s) : \A k \in i..j : InClass(s[k], class)})

\* str.strip()
Strip(s) ==
    LET keep == {i \in 1..Len(s) : ~IsSpace(s[i])}
    IN  IF keep = {} THEN <<>> ELSE SubSeq(s, SetMin(keep), SetMax(keep))

Contains(s, c) == \E i \in 1..Len(s) : s[i] = c
CountChar(s, c) == Cardinality({i \in 1..Len(s) : s[i] = c})

\* s.split(c)[-1]
AfterLast(s, c) ==
    IF Contains(s, c)
    THEN SubSeq(s, SetMax({i \in 1..Len(s) : s[i] = c}) + 1, Len(s))
    ELSE s

\* int() of a run of decimal digits
RECURSIVE ToInt(_)
ToInt(s) == IF s = <<>> THEN 0
            ELSE 10 * ToInt(SubSeq(s, 1, Len(s) - 1)) + DigitVal(s[Len(s)])

RECURSIVE Pow10(_)
Pow10(n) == IF n = 0 THEN 1 ELSE 10 * Pow10(n - 1)

RECURSIVE Reverse(_)
Reverse(s) == IF s = <<>> THEN <<>> ELSE Append(Reverse(Tail(s)), Head(s))

RECURSIVE ConcatAll(_)
ConcatAll(ss) == IF ss = <<>> THEN <<>> ELSE Head(ss) \o ConcatAll(Tail(ss))

SeqsUpTo(S, n) == UNION {[1..k -> S] : k \in 0..n}

\* one regular expression match: re.search(...) is None, or the group
NoMatch == [found |-> FALSE, g |-> <<>>]
Match(g) == [found |-> TRUE, g |-> g]

(* ------------------------- header text and parser ----------------------- *)
Hdr(n, v) == [name |-> n, value |-> v]
BlankLine == [name |-> "", value |-> <<>>]
JunkLine == [name |-> "", value |-> <<"x">>]
IsBlank(line) == line.name = "" /\ \A i \in 1..Len(line.value) : IsSpace(line.value[i])

\* header names compare case-insensitively in email.message.Message
NameKey(n) == IF n = "received" THEN "Received" ELSE n

\* QTextEdit.toPlainText().strip(): leading and trailing blank lines go
StripText(text) ==
    LET keep == {i \in 1..Len(text) : ~IsBlank(text[i])}
    IN  IF keep = {} THEN <<>> ELSE SubSeq(text, SetMin(keep), SetMax(keep))

\* email.parser.Parser().parsestr: the headers are the lines up to the first
\* line that is not a header line; the rest is taken as the body, nothing is
\* raised
ParseStr(text) ==
    LET stop == {i \in 1..Len(text) : text[i].name = ""}
    IN  IF stop = {} THEN text ELSE SubSeq(text, 1, SetMin(stop) - 1)

\* Message.get(name, ''): the value of the first header of that name
MsgGet(m, n) ==
    LET hit == {i \in 1..Len(m) : NameKey(m[i].name) = NameKey(n)}
    IN  IF hit = {} THEN <<>> ELSE m[SetMin(hit)].value

\* Message.get_all(name, []): the values of all headers of that name, in order
RECURSIVE MsgGetAll(_, _)
MsgGetAll(m, n) ==
    IF m = <<>> THEN <<>>
    ELSE IF NameKey(Head(m).name) = NameKey(n)
         THEN <<Head(m).value>> \o MsgGetAll(Tail(m), n)
         ELSE MsgGetAll(Tail(m), n)

\* dict[k] = v on an insertion-ordered dict kept as a sequence of pairs
DictSet(d, k, v) ==
    IF \E i \in 1..Len(d) : d[i].name = k
    THEN [i \in 1..Len(d) |-> IF d[i].name = k THEN Hdr(k, v) ELSE d[i]]
    ELSE Append(d, Hdr(k, v))

\* dict(msg.items())
RECURSIVE DictOf(_)
DictOf(items) ==
    IF items = <<>> THEN <<>>
    ELSE LET last == items[Len(items)]
         IN  DictSet(DictOf(SubSeq(items, 1, Len(items) - 1)), last.name, last.value)

(* ----------------------------- domains ---------------------------------- *)
\* email.utils.parseaddr(v)[1]: the addr-spec, taken from inside <...> when
\* present; '' when the text has more than one "@" or nothing after the "@"
ParseAddr(v) ==
    LET lt == {i \in 1..Len(v) : v[i] = "<"}
        inner == IF lt # {} /\ \E j \in 1..Len(v) : j > SetMin(lt) /\ v[j] = ">"
                 THEN SubSeq(v, SetMin(lt) + 1,
                             SetMin({j \in 1..Len(v) : j > SetMin(lt) /\ v[j] = ">"}) - 1)
                 ELSE Strip(v)
    IN  IF CountChar(inner, "@") > 1 \/ (inner # <<>> /\ inner[Len(inner)] = "@")
        THEN <<>> ELSE inner

DomainOfHeader(header) ==
    IF header # <<>>
    THEN LET addr == ParseAddr(header)
         IN  IF Contains(addr, "@") THEN AfterLast(addr, "@") ELSE <<>>
    ELSE <<>>

\* EmailAnalyzer._extract_domains
ExtractDomains(m) ==
    <<DomainOfHeader(MsgGet(m, "From")), DomainOfHeader(MsgGet(m, "Return-Path"))>>

(* --------------------------- the result --------------------------------- *)
sNone == <<"n", "o", "n", "e">>
sPass == <<"p", "a", "s", "s">>
sEllipsis == <<".", ".", ".">>
sNoDkim == <<"N", "o", " ", "D", "K", "I", "M", "-", "S", "i", "g", "n", "a", "t", "u", "r", "e",
            " ", "f", "o", "u", "n", "d">>
kwSpf == <<"s", "p", "f", "=">>
kwDkim == <<"d", "k", "i", "m", "=">>
kwDmarc == <<"d", "m", "a", "r", "c", "=">>

\* EmailParseResult(): the field defaults; sender_ip None is <<>>
EmailParseResult ==
    [dmarc_compliant |-> FALSE, dmarc_status |-> sNone,
     spf_aligned |-> FALSE, spf_authenticated |-> FALSE, spf_status |-> sNone,
     dkim_aligned |-> FALSE, dkim_authenticated |-> FALSE, dkim_status |-> sNone,
     dkim_info |-> <<>>, headers |-> <<>>, auth_results |-> <<>>, spf_info |-> <<>>,
     sender_ip |-> <<>>, relays |-> <<>>,
     total_delay |-> 0, delay_source |-> "Calculated",
     end_to_end_latency_header |-> <<>>,
     from_domain |-> <<>>, return_path_domain |-> <<>>]

(* -------------------------- authentication ------------------------------ *)
DkimInfoMax == 200

\* re.search(r'\bd=([^;]+)', dkim_signature)
DMatch(s) ==
    LET starts == {i \in 1..Len(s) :
                      /\ StartsAt(s, i, <<"d", "=">>)
                      /\ (i = 1 \/ ~IsWordChar(s[i - 1]))
                      /\ i + 2 <= Len(s)
                      /\ s[i + 2] # ";"}
    IN  IF starts = {} THEN NoMatch
        ELSE LET b == SetMin(starts) + 2 IN Match(SubSeq(s, b, RunEnd(s, b, "[^;]")))

\* re.search(kw + r'([a-zA-Z]+)', auth_results)
StatusMatch(s, kw) ==
    LET starts == {i \in 1..Len(s) :
                      /\ StartsAt(s, i, kw)
                      /\ i + Len(kw) <= Len(s)
                      /\ IsAlpha(s[i + Len(kw)])}
    IN  IF starts = {} THEN NoMatch
        ELSE LET b == SetMin(starts) + Len(kw) IN Match(SubSeq(s, b, RunEnd(s, b, "[a-zA-Z]")))

\* the greedy tail (?:;[^;]+)* of a match that ends at e
RECURSIVE MoreSegments(_, _)
MoreSegments(s, e) ==
    IF e + 2 <= Len(s) /\ s[e + 1] = ";" /\ s[e + 2] # ";"
    THEN MoreSegments(s, RunEnd(s, e + 2, "[^;]"))
    ELSE e

\* re.search(r'spf=[^;]+(?:;[^;]+)*', auth_results), group(0)
SpfInfoMatch(s) ==
    LET starts == {i \in 1..Len(s) :
                      /\ StartsAt(s, i, kwSpf)
                      /\ i + 4 <= Len(s)
                      /\ s[i + 4] # ";"}
    IN  IF starts = {} THEN NoMatch
        ELSE LET i == SetMin(starts)
             IN  Match(SubSeq(s, i, MoreSegments(s, RunEnd(s, i + 4, "[^;]"))))

\* result.spf_status.lower() == 'pass'
IsPassExact(status) == status = sPass
IsPass(status) == LowerStr(status) = sPass

\* from_domain == return_path_domain if return_path_domain else False
SpfAlignedAnyEqual(from_domain, return_path_domain) == from_domain = return_path_domain
SpfAligned(from_domain, return_path_domain) ==
    IF return_path_domain # <<>> THEN from_domain = return_path_domain ELSE FALSE

\* EmailAnalyzer._check_authentication
CheckAuthentication(m, r) ==
    LET auth_results == MsgGet(m, "Authentication-Results")
        dkim_signature == MsgGet(m, "DKIM-Signature")
        d_match == DMatch(dkim_signature)
        spf_result == StatusMatch(auth_results, kwSpf)
        spf_info_match == SpfInfoMatch(auth_results)
        dkim_result == StatusMatch(auth_results, kwDkim)
        dmarc_result == StatusMatch(auth_results, kwDmarc)
    IN  [r EXCEPT
          !.auth_results = auth_results,
          !.spf_aligned = SpfAligned(r.from_domain, r.return_path_domain),
          !.dkim_aligned = IF dkim_signature # <<>> /\ d_match.found
                           THEN r.from_domain = Strip(d_match.g) ELSE @,
          !.dkim_info = IF dkim_signature # <<>>
                        THEN IF Len(dkim_signature) > DkimInfoMax
                             THEN SubSeq(dkim_signature, 1, DkimInfoMax) \o sEllipsis
                             ELSE dkim_signature
                        ELSE sNoDkim,
          !.spf_status = IF spf_result.found THEN spf_result.g ELSE @,
          !.spf_authenticated = IF spf_result.found
                                THEN IsPass(spf_result.g) ELSE @,
          !.spf_info = IF spf_info_match.found THEN spf_info_match.g ELSE @,
          !.dkim_status = IF dkim_result.found THEN dkim_result.g ELSE @,
          !.dkim_authenticated = IF dkim_result.found
                                 THEN IsPass(dkim_result.g) ELSE @,
          !.dmarc_status = IF dmarc_result.found THEN dmarc_result.g ELSE @,
          !.dmarc_compliant = IF dmarc_result.found
                              THEN IsPass(dmarc_result.g) ELSE @]

(* ------------------------------ relays ---------------------------------- *)
kwFrom == <<"f", "r", "o", "m">>
kwBy == <<"b", "y">>
kwWith == <<"w", "i", "t", "h">>
kwId == <<"i", "d">>

\* a datetime, or None
NoDate == [set |-> FALSE, t |-> 0, aware |-> FALSE]
DateTime(t, aware) == [set |-> TRUE, t |-> t, aware |-> aware]

\* email.utils.parsedate_to_datetime: a date without a zone gives a naive
\* datetime, a date with a zone an aware one, anything else raises ValueError
IsDateText(s) ==
    /\ Len(s) \in {2, 3}
    /\ s[1] = "D"
    /\ IsDigit(s[2])
    /\ Len(s) = 3 => s[3] = "z"
ParseDate(s) == DateTime(DigitVal(s[2]), Len(s) = 3)

\* time_dt.strftime('%m/%d/%Y %I:%M:%S %p'): the wall-clock time, no zone
StrfTime(dt) == <<"F", Digits[dt.t + 1]>>

\* a < b on datetimes raises TypeError when exactly one of them is aware
Comparable(a, b) == a.aware = b.aware

\* re.search(kw + r'\s+(.+?)\s+(t1|t2|...)', header, IGNORECASE | DOTALL),
\* group(1); atEnd says that '$' is one of the alternatives
ClauseMatch(s, kw, terms, atEnd) ==
    LET ls == LowerStr(s)
        Ends(p) == \/ \E t \in terms : StartsAt(ls, p, t)
                   \/ atEnd /\ (p = Len(s) + 1 \/ (p = Len(s) /\ s[p] = "\n"))
        \* the lazy group s[g..e] is followed by \s+ and then a terminator
        GroupEnds(g) == {e \in g..Len(s) :
                            \E p \in (e + 2)..(Len(s) + 1) :
                                /\ \A q \in (e + 1)..(p - 1) : IsSpace(s[q])
                                /\ Ends(p)}
        \* group starts after kw and a non-empty run of white space
        GroupStarts(i) == {g \in (i + Len(kw) + 1)..(RunEnd(s, i + Len(kw), "\\s") + 1) :
                              GroupEnds(g) # {}}
        starts == {i \in 1..Len(s) : StartsAt(ls, i, kw) /\ GroupStarts(i) # {}}
    IN  IF starts = {} THEN NoMatch
        ELSE LET g == SetMax(GroupStarts(SetMin(starts)))
             IN  Match(SubSeq(s, g, SetMin(GroupEnds(g))))

\* re.search(r';\s*(.+)$', header), group(1): '.' does not match a newline
TimeMatch(s) ==
    LET last == IF s # <<>> /\ s[Len(s)] = "\n" THEN {Len(s) - 1, Len(s)} ELSE {Len(s)}
        GroupStarts(i) == {g \in (i + 1)..(RunEnd(s, i + 1, "\\s") + 1) :
                              \E e \in last : g <= e /\ \A k \in g..e : s[k] # "\n"}
        starts == {i \in 1..Len(s) : s[i] = ";" /\ GroupStarts(i) # {}}
    IN  IF starts = {} THEN NoMatch
        ELSE LET g == SetMax(GroupStarts(SetMin(starts)))
             IN  Match(SubSeq(s, g, SetMax({e \in last : g <= e /\ \A k \in g..e : s[k] # "\n"})))

\* lengths of the text at p that one octet alternative
\* 25[0-5]|2[0-4][0-9]|[01]?[0-9][0-9]? can match
OctetLens(s, p) ==
    {n \in 1..3 :
        /\ p + n - 1 <= Len(s)
        /\ \A k \in p..(p + n - 1) : IsDigit(s[k])
        /\ n = 3 => ToInt(SubSeq(s, p, p + 2)) <= 255}

\* the end of the IPv4 pattern matched at i: three octets each followed by
\* ".", then the longest last octet
RECURSIVE Ipv4End(_, _, _)
Ipv4End(s, p, left) ==
    IF left = 1
    THEN IF OctetLens(s, p) = {} THEN 0 ELSE p + SetMax(OctetLens(s, p)) - 1
    ELSE LET ok == {n \in OctetLens(s, p) : p + n <= Len(s) /\ s[p + n] = "."}
         IN  IF ok = {} THEN 0 ELSE Ipv4End(s, p + SetMax(ok) + 1, left - 1)

IsHex(c) == IsDigit(c) \/ LowerChar(c) \in {"a", "b", "c", "d", "e", "f"}
HexLens(s, p) == {n \in 1..4 : p + n - 1 <= Len(s) /\ \A k \in p..(p + n - 1) : IsHex(s[k])}

\* the end of the IPv6 pattern (?:[0-9a-fA-F]{1,4}:){7}[0-9a-fA-F]{1,4} at i
RECURSIVE Ipv6End(_, _, _)
Ipv6End(s, p, left) ==
    IF left = 1
    THEN IF HexLens(s, p) = {} THEN 0 ELSE p + SetMax(HexLens(s, p)) - 1
    ELSE LET ok == {n \in HexLens(s, p) : p + n <= Len(s) /\ s[p + n] = ":"}
         IN  IF ok = {} THEN 0 ELSE Ipv6End(s, p + SetMax(ok) + 1, left - 1)

\* EmailAnalyzer._extract_ip_from_text
ExtractIpFromText(text) ==
    LET v4 == {i \in 1..Len(text) : Ipv4End(text, i, 4) # 0}
        v6 == {i \in 1..Len(text) : Ipv6End(text, i, 8) # 0}
    IN  IF v4 # {} THEN SubSeq(text, SetMin(v4), Ipv4End(text, SetMin(v4), 4))
        ELSE IF v6 # {} THEN SubSeq(text, SetMin(v6), Ipv6End(text, SetMin(v6), 8))
        ELSE <<>>

\* EmailAnalyzer._parse_received_header
ParseReceivedHeader(header, hop) ==
    LET from_match == ClauseMatch(header, kwFrom, {kwBy}, FALSE)
        by_match == ClauseMatch(header, kwBy, {kwWith, kwId, <<";">>}, TRUE)
        with_match == ClauseMatch(header, kwWith, {kwId, <<";">>}, TRUE)
        time_match == TimeMatch(header)
        time_str == Strip(time_match.g)
        parsed == time_match.found /\ IsDateText(time_str)
        from == IF from_match.found THEN Strip(from_match.g) ELSE <<>>
    IN  [hop |-> hop,
         from |-> from,
         by |-> IF by_match.found THEN Strip(by_match.g) ELSE <<>>,
         with |-> IF with_match.found THEN Strip(with_match.g) ELSE <<>>,
         time |-> IF parsed THEN StrfTime(ParseDate(time_str))
                  ELSE IF time_match.found THEN time_str ELSE <<>>,
         time_dt |-> IF parsed THEN ParseDate(time_str) ELSE NoDate,
         delay |-> 0,
         blacklist |-> TRUE,
         ip |-> ExtractIpFromText(from)]

\* _process_relays without the renumbering loop after the reversal
ProcessRelaysKeepNumbers(m) ==
    LET received_list == Reverse(MsgGetAll(m, "Received"))
        relays == [i \in 1..Len(received_list) |->
                      ParseReceivedHeader(received_list[i], i)]
        check == Len(relays) > 1 /\ relays[1].time_dt.set /\ relays[2].time_dt.set
    IN  IF check /\ ~Comparable(relays[2].time_dt, relays[1].time_dt)
        THEN [raised |-> TRUE, relays |-> <<>>]
        ELSE IF check /\ relays[2].time_dt.t < relays[1].time_dt.t
        THEN [raised |-> FALSE, relays |-> Reverse(relays)]
        ELSE [raised |-> FALSE, relays |-> relays]

\* the outcome of EmailAnalyzer._process_relays: the relay list, or a raised
\* TypeError (datetime comparison of a naive with an aware value)
ProcessRelays(m) ==
    LET received_list == Reverse(MsgGetAll(m, "Received"))
        relays == [i \in 1..Len(received_list) |->
                      ParseReceivedHeader(received_list[i], i)]
        check == Len(relays) > 1 /\ relays[1].time_dt.set /\ relays[2].time_dt.set
        reversed == Reverse(relays)
    IN  IF check /\ ~Comparable(relays[2].time_dt, relays[1].time_dt)
        THEN [raised |-> TRUE, relays |-> <<>>]
        ELSE IF check /\ relays[2].time_dt.t < relays[1].time_dt.t
        THEN [raised |-> FALSE,
              relays |-> [i \in 1..Len(reversed) |-> [reversed[i] EXCEPT !.hop = i]]]
        ELSE [raised |-> FALSE, relays |-> relays]

(* ----------------------------- sender IP -------------------------------- *)
RECURSIVE Split(_, _)
Split(s, c) ==
    IF ~Contains(s, c) THEN <<s>>
    ELSE LET i == SetMin({k \in 1..Len(s) : s[k] = c})
         IN  <<SubSeq(s, 1, i - 1)>> \o Split(SubSeq(s, i + 1, Len(s)), c)

HexVal(c) == IF IsDigit(c) THEN DigitVal(c)
             ELSE 9 + (CHOOSE i \in 1..6 : LowerCase[i] = LowerChar(c))
RECURSIVE HexToInt(_)
HexToInt(s) == IF s = <<>> THEN 0
               ELSE 16 * HexToInt(SubSeq(s, 1, Len(s) - 1)) + HexVal(s[Len(s)])

IsV4(ip) ==
    LET parts == Split(ip, ".")
    IN  /\ Len(parts) = 4
        /\ \A i \in 1..4 :
              /\ Len(parts[i]) \in 1..3
              /\ \A k \in 1..Len(parts[i]) : IsDigit(parts[i][k])
              /\ Len(parts[i]) > 1 => parts[i][1] # "0"
              /\ ToInt(parts[i]) <= 255

\* the uncompressed form of an IPv6 address: eight groups of hex digits
IsV6(ip) ==
    LET parts == Split(ip, ":")
    IN  /\ Len(parts) = 8
        /\ \A i \in 1..8 :
              /\ Len(parts[i]) \in 1..4
              /\ \A k \in 1..Len(parts[i]) : IsHex(parts[i][k])

\* EmailAnalyzer._is_valid_ip: ipaddress.ip_address(ip) does not raise
IsValidIp(ip) == IsV4(ip) \/ IsV6(ip)

\* IPv4Address.is_private or is_loopback
V4Private(ip) ==
    LET parts == Split(ip, ".")
        a == ToInt(parts[1])
        b == ToInt(parts[2])
        c == ToInt(parts[3])
        d == ToInt(parts[4])
    IN  \/ a \in {0, 10, 127}
        \/ a = 169 /\ b = 254
        \/ a = 172 /\ b \in 16..31
        \/ a = 192 /\ b = 0 /\ c = 0 /\ d \in (0..7) \cup {170, 171}
        \/ a = 192 /\ b = 0 /\ c = 2
        \/ a = 192 /\ b = 168
        \/ a = 198 /\ b \in {18, 19}
        \/ a = 198 /\ b = 51 /\ c = 100
        \/ a = 203 /\ b = 0 /\ c = 113
        \/ a >= 240

\* IPv6Address.is_private or is_loopback, on the uncompressed form
V6Private(ip) ==
    LET parts == Split(ip, ":")
        g == [i \in 1..8 |-> HexToInt(parts[i])]
    IN  \/ \A i \in 1..7 : g[i] = 0 /\ g[8] \in {0, 1}
        \/ \A i \in 1..5 : g[i] = 0 /\ g[6] = 65535
        \/ g[1] = 256 /\ g[2] = 0 /\ g[3] = 0 /\ g[4] = 0
        \/ g[1] = 8193 /\ (g[2] < 512 \/ g[2] = 3512)
        \/ g[1] \in 64512..65023
        \/ g[1] \in 65152..65215

\* EmailAnalyzer._is_private_ip
IsPrivateIp(ip) ==
    IF ip = <<>> THEN TRUE
    ELSE IF IsV4(ip) THEN V4Private(ip)
    ELSE IF IsV6(ip) THEN V6Private(ip)
    ELSE TRUE

sSender == <<"s", "e", "n", "d", "e", "r">>
sIp == <<"i", "p">>
sIs == <<"i", "s">>
sClientIp == <<"c", "l", "i", "e", "n", "t", "-", "i", "p", "=">>
IsIpChar(c) == IsHex(c) \/ c \in {".", ":"}

\* re.search(r'(?:sender\s*ip\s*is|client-ip=)\s*([\[\(]?[\d\.:a-fA-F]+[\]\)]?)',
\*           auth_results, IGNORECASE), group(1).strip('[]()')
SenderIpMatch(s) ==
    LET ls == LowerStr(s)
        AfterSpaces(p) == RunEnd(s, p, "\\s") + 1
        \* the position after the keyword that starts at i, 0 when none does
        KwEnd(i) ==
            IF StartsAt(ls, i, sClientIp) THEN i + Len(sClientIp)
            ELSE IF /\ StartsAt(ls, i, sSender)
                    /\ StartsAt(ls, AfterSpaces(i + 6), sIp)
                    /\ StartsAt(ls, AfterSpaces(AfterSpaces(i + 6) + 2), sIs)
                 THEN AfterSpaces(AfterSpaces(i + 6) + 2) + 2
            ELSE 0
        \* the first character of the address
        First(i) == LET p == AfterSpaces(KwEnd(i))
                    IN  IF p <= Len(s) /\ s[p] \in {"[", "("} THEN p + 1 ELSE p
        starts == {i \in 1..Len(s) :
                      /\ KwEnd(i) # 0
                      /\ First(i) <= Len(s)
                      /\ IsIpChar(s[First(i)])}
    IN  IF starts = {} THEN NoMatch
        ELSE LET q == First(SetMin(starts))
             IN  Match(SubSeq(s, q, RunEnd(s, q, "[\\d.:a-fA-F]")))

IsPublicIp(ip) == IsValidIp(ip) /\ ~IsPrivateIp(ip)

\* _extract_sender_ip accepting whatever valid address the header asserts
ExtractSenderIpAnyValid(r) ==
    LET ip_match == SenderIpMatch(r.auth_results)
        pub == {i \in 1..Len(r.relays) :
                   r.relays[i].ip # <<>> /\ IsPublicIp(r.relays[i].ip)}
    IN  IF ip_match.found /\ IsValidIp(ip_match.g)
        THEN [r EXCEPT !.sender_ip = ip_match.g]
        ELSE IF pub # {} THEN [r EXCEPT !.sender_ip = r.relays[SetMin(pub)].ip]
        ELSE r

\* EmailAnalyzer._extract_sender_ip
ExtractSenderIp(r) ==
    LET ip_match == SenderIpMatch(r.auth_results)
        pub == {i \in 1..Len(r.relays) :
                   r.relays[i].ip # <<>> /\ IsPublicIp(r.relays[i].ip)}
    IN  IF ip_match.found /\ IsPublicIp(ip_match.g)
        THEN [r EXCEPT !.sender_ip = ip_match.g]
        ELSE IF pub # {} THEN [r EXCEPT !.sender_ip = r.relays[SetMin(pub)].ip]
        ELSE r

(* ------------------------------ delays ---------------------------------- *)
Milli == 1000
MsThreshold == 3600

None == [ok |-> FALSE, ms |-> 0]
Some(ms) == [ok |-> TRUE, ms |-> ms]

AllDigits(s, a, b) == a >= 1 /\ b <= Len(s) /\ \A k \in a..b : IsDigit(s[k])

\* the fractional digits taken as milliseconds whatever their number
FractionMsUnscaled(f) == ToInt(f)

\* int(fractional) / (10 ** len(fractional)), in milliseconds
FractionMs(f) == (ToInt(f) * Milli) \div Pow10(Len(f))

\* EmailAnalyzer._parse_latency_header: the seconds as milliseconds, or None
ParseLatencyHeader(s) ==
    LET \* (\d{1,2}):(\d{2}):(\d{2}) at i with an hours field of h digits
        Hms(i, h) == /\ AllDigits(s, i, i + h - 1)
                     /\ StartsAt(s, i + h, <<":">>)
                     /\ AllDigits(s, i + h + 1, i + h + 2)
                     /\ StartsAt(s, i + h + 3, <<":">>)
                     /\ AllDigits(s, i + h + 4, i + h + 5)
        hmsStarts == {i \in 1..Len(s) : Hms(i, 2) \/ Hms(i, 1)}
        \* (\d+)\.(\d+) at i
        Dec(i) == /\ IsDigit(s[i])
                  /\ StartsAt(s, RunEnd(s, i, "\\d") + 1, <<".">>)
                  /\ AllDigits(s, RunEnd(s, i, "\\d") + 2, RunEnd(s, i, "\\d") + 2)
        decStarts == {i \in 1..Len(s) : Dec(i)}
        intStarts == {i \in 1..Len(s) : IsDigit(s[i])}
    IN  IF s = <<>> THEN None
        ELSE IF hmsStarts # {}
        THEN LET i == SetMin(hmsStarts)
                 h == IF Hms(i, 2) THEN 2 ELSE 1
                 e == i + h + 5
                 hours == ToInt(SubSeq(s, i, i + h - 1))
                 minutes == ToInt(SubSeq(s, i + h + 1, i + h + 2))
                 seconds == ToInt(SubSeq(s, i + h + 4, i + h + 5))
                 hasFrac == StartsAt(s, e + 1, <<".">>) /\ AllDigits(s, e + 2, e + 2)
                 fractional == IF hasFrac THEN SubSeq(s, e + 2, RunEnd(s, e + 2, "\\d"))
                               ELSE <<"0">>
             IN  Some((hours * 3600 + minutes * 60 + seconds) * Milli + FractionMs(fractional))
        ELSE IF decStarts # {}
        THEN LET i == SetMin(decStarts)
                 d == RunEnd(s, i, "\\d")
             IN  Some(ToInt(SubSeq(s, i, d)) * Milli
                      + FractionMs(SubSeq(s, d + 2, RunEnd(s, d + 2, "\\d"))))
        ELSE IF intStarts # {}
        THEN LET i == SetMin(intStarts)
                 seconds == ToInt(SubSeq(s, i, RunEnd(s, i, "\\d")))
             IN  IF seconds > MsThreshold THEN Some(seconds) ELSE Some(seconds * Milli)
        ELSE None

\* the hop delay without max(delta, 0)
HopDelaySigned(relays, i) ==
    IF i > 1 /\ relays[i - 1].time_dt.set /\ relays[i].time_dt.set
    THEN (relays[i].time_dt.t - relays[i - 1].time_dt.t) * Milli
    ELSE relays[i].delay

\* relays[i]['delay'] as the loop of _calculate_delays leaves it
HopDelay(relays, i) ==
    IF i > 1 /\ relays[i - 1].time_dt.set /\ relays[i].time_dt.set
    THEN LET delta == (relays[i].time_dt.t - relays[i - 1].time_dt.t) * Milli
         IN  IF delta > 0 THEN delta ELSE 0
    ELSE relays[i].delay

\* hops at which the subtraction raises TypeError
BadHops(relays) ==
    {i \in 2..Len(relays) :
        /\ relays[i - 1].time_dt.set /\ relays[i].time_dt.set
        /\ ~Comparable(relays[i].time_dt, relays[i - 1].time_dt)}

RECURSIVE SumDelays(_, _)
SumDelays(relays, n) ==
    IF n <= 1 THEN 0
    ELSE SumDelays(relays, n - 1)
         + (IF relays[n - 1].time_dt.set /\ relays[n].time_dt.set
            THEN relays[n].delay ELSE 0)

\* the outcome of EmailAnalyzer._calculate_delays: the result, or a raised
\* TypeError that leaves the hops before the failing one updated
CalculateDelays(m, r) ==
    LET latency_header == MsgGet(m, "X-MS-Exchange-Transport-EndToEndLatency")
        parsed_delay == ParseLatencyHeader(latency_header)
        r1 == IF latency_header # <<>>
              THEN [r EXCEPT !.end_to_end_latency_header = latency_header] ELSE r
        stop == IF BadHops(r.relays) = {} THEN Len(r.relays) + 1
                ELSE SetMin(BadHops(r.relays))
        relays == [i \in 1..Len(r.relays) |->
                      IF i < stop THEN [r.relays[i] EXCEPT !.delay = HopDelay(r.relays, i)]
                      ELSE r.relays[i]]
    IN  IF latency_header # <<>> /\ parsed_delay.ok
        THEN [raised |-> FALSE,
              result |-> [r1 EXCEPT !.total_delay = parsed_delay.ms,
                                    !.delay_source = "X-MS-Exchange-Transport-EndToEndLatency"]]
        ELSE IF BadHops(r.relays) # {}
        THEN [raised |-> TRUE, result |-> [r1 EXCEPT !.relays = relays]]
        ELSE [raised |-> FALSE,
              result |-> [r1 EXCEPT !.relays = relays,
                                    !.total_delay = SumDelays(relays, Len(relays)),
                                    !.delay_source = "Calculated from Received headers"]]

(* --------------------------- IP lookup service -------------------------- *)
\* two service instances (two runs of the application) share the cache
\* directory; each has its own lru_cache
Callers == {1, 2}
\* the last day of the clock
MaxDay == 8
\* _get_cached_ip_info: 7 * 24 * 3600 seconds, in days
ExpiryDays == 7

\* the addresses asked about
sPublicIp == <<"8", ".", "8", ".", "8", ".", "8">>
sPrivateIp == <<"1", "0", ".", "0", ".", "0", ".", "1">>
sLoopbackIp == <<"1", "2", "7", ".", "0", ".", "0", ".", "1">>
sMulticastIp == <<"2", "2", "4", ".", "0", ".", "0", ".", "1">>
sNotAnIp == <<"8", ".", "8", ".", "x">>
sAmazonIp == <<"5", "2", ".", "1", ".", "2", ".", "3">>
sAzureIp == <<"2", "0", ".", "4", "0", ".", "6", "0", ".", "8", "0">>
AddrInputs == {sPublicIp, sPrivateIp, sLoopbackIp, sMulticastIp, sNotAnIp, <<>>,
               sAmazonIp, sAzureIp}

\* IPLookupService._is_valid_ip
ServiceIsValidIp(ip) == IsV4(ip) \/ IsV6(ip)

\* IPLookupService._is_private_ip: is_private or is_loopback, True on ValueError
ServiceIsPrivateIp(ip) ==
    IF ~(IsV4(ip) \/ IsV6(ip)) THEN TRUE
    ELSE IF IsV4(ip) THEN V4Private(ip)
    ELSE V6Private(ip)

\* IPv4Address.is_multicast (224.0.0.0/4), IPv6Address.is_multicast (ff00::/8)
IsMulticast(ip) ==
    IF IsV4(ip) THEN ToInt(Split(ip, ".")[1]) \in 224..239
    ELSE HexToInt(Split(ip, ":")[1]) >= 65280

\* IPv4Address.is_reserved (240.0.0.0/4), IPv6Address.is_reserved
IsReserved(ip) ==
    IF IsV4(ip) THEN ToInt(Split(ip, ".")[1]) >= 240
    ELSE LET g == HexToInt(Split(ip, ":")[1])
         IN  g <= 8191 \/ g \in 16384..64511 \/ g \in 65024..65151

\* the cache file of one address: absent, a JSON object with or without
\* '_cached_at', something json.load rejects, or the file as open(.., 'w')
\* and a first write leave it
NoFile == [kind |-> "absent", data |-> "", at |-> 0, by |-> 0]
Malformed == [kind |-> "malformed", data |-> "", at |-> 0, by |-> 0]
Unstamped == [kind |-> "unstamped", data |-> "old", at |-> 0, by |-> 0]
Entry(data, at) == [kind |-> "entry", data |-> data, at |-> at, by |-> 0]
Emptied(c) == [kind |-> "empty", data |-> "", at |-> 0, by |-> c]
Partial(c) == [kind |-> "partial", data |-> "", at |-> 0, by |-> c]
CacheInputs == {NoFile, Malformed, Unstamped, Entry("old", 0)}

\* what get_ip_info returns
NoResult == [kind |-> "none", data |-> "", at |-> 0]
\* {'error': 'Invalid or private IP address'}
ErrorInvalid == [kind |-> "error_invalid", data |-> "", at |-> 0]
\* {'error': 'Request timed out', 'ip': ip}
ErrorTimeout == [kind |-> "error_timeout", data |-> "", at |-> 0]
\* {'error': f'Request failed: ...', 'ip': ip}
ErrorRequest == [kind |-> "error_request", data |-> "", at |-> 0]
\* the object of a cache file or of response.json(), with its '_cached_at'
Info(data, at) == [kind |-> "info", data |-> data, at |-> at]
\* the record of _get_fallback_ip_info
FallbackInfo == [kind |-> "fallback", data |-> "", at |-> 0]

\* cloud_ranges of _get_fallback_ip_info, in the order of the dict
Range(a, b, c, d, prefix) == [a |-> a, b |-> b, c |-> c, d |-> d, prefix |-> prefix]
cloud_ranges ==
    <<[provider |-> "Google",
       ranges |-> <<Range(8, 8, 0, 0, 12), Range(35, 0, 0, 0, 8), Range(104, 16, 0, 0, 12)>>],
      [provider |-> "Amazon AWS",
       ranges |-> <<Range(52, 0, 0, 0, 8), Range(54, 0, 0, 0, 8), Range(18, 0, 0, 0, 8)>>],
      [provider |-> "Microsoft Azure",
       ranges |-> <<Range(13, 64, 0, 0, 11), Range(20, 0, 0, 0, 8), Range(40, 0, 0, 0, 8)>>],
      [provider |-> "Cloudflare",
       ranges |-> <<Range(104, 16, 0, 0, 12), Range(172, 64, 0, 0, 13),
                    Range(173, 245, 48, 0, 20)>>]>>

RECURSIVE Pow2(_)
Pow2(n) == IF n = 0 THEN 1 ELSE 2 * Pow2(n - 1)
\* the upper 24 bits of a dotted address; no listed prefix is longer
Upper24(a, b, c) == a * 65536 + b * 256 + c
\* ipaddress.ip_network(range_str) raises ValueError: host bits set
HostBitsSet(r) == r.d # 0 \/ Upper24(r.a, r.b, r.c) % Pow2(24 - r.prefix) # 0
\* ip_obj in ipaddress.ip_network(range_str), for a network that is built
InNetwork(ip, r) ==
    /\ IsV4(ip)
    /\ LET parts == Split(ip, ".")
       IN  Upper24(ToInt(parts[1]), ToInt(parts[2]), ToInt(parts[3])) \div Pow2(24 - r.prefix)
              = Upper24(r.a, r.b, r.c) \div Pow2(24 - r.prefix)

\* the two loops over cloud_ranges inside one try: a match sets info['org']
\* and breaks out of the provider's ranges, a ValueError ends both loops
RECURSIVE ScanRanges(_, _, _, _)
ScanRanges(ip, p, k, org) ==
    IF p > Len(cloud_ranges) THEN org
    ELSE IF k > Len(cloud_ranges[p].ranges) THEN ScanRanges(ip, p + 1, 1, org)
    ELSE IF HostBitsSet(cloud_ranges[p].ranges[k]) THEN org
    ELSE IF InNetwork(ip, cloud_ranges[p].ranges[k])
         THEN ScanRanges(ip, p + 1, 1, cloud_ranges[p].provider)
    ELSE ScanRanges(ip, p, k + 1, org)

\* IPLookupService._get_fallback_ip_info: the 'org' of the record ("" when the
\* record has none); hostname and ASN fields do not bear on it
GetFallbackIpInfo(ip) == [FallbackInfo EXCEPT !.data = ScanRanges(ip, 1, 1, "")]

\* a call of get_ip_info: where it is, what it returned, and what it did:
\* the day it was made, whether a lookup went out, the cache file as it was
\* read, whether the file was written and whether lru_cache answered
NoCall == [pc |-> "idle", ret |-> NoResult, on |-> 0, queried |-> FALSE,
           read |-> "none", wrote |-> FALSE, memoized |-> FALSE]
AtRest(c) == call[c].pc \in {"idle", "returned"}

\* a step of the lookup service leaves the rest alone
OnlyLookup == UNCHANGED <<analysisVars, blacklistVars, policyVars, dnsVars, shellVars>>

LookupAtRest ==
    /\ query_ip = <<>>
    /\ now = 0
    /\ cache = NoFile
    /\ memo = [c \in Callers |-> NoResult]
    /\ call = [c \in Callers |-> NoCall]

\* _get_cached_ip_info on the file f: the object, or None (NoResult)
GetCachedIpInfo(f) ==
    IF f.kind = "entry" /\ now - f.at < ExpiryDays THEN Info(f.data, f.at)
    ELSE NoResult

\* the return of get_ip_info through functools.lru_cache: the value is kept
Return(c, value, fields) ==
    /\ call' = [call EXCEPT ![c] = [fields EXCEPT !.pc = "returned", !.ret = value]]
    /\ memo' = [memo EXCEPT ![c] = value]

\* lru_cache(maxsize=256) has the value of an earlier call: returned as it is
GetIpInfoMemoized(c) ==
    /\ AtRest(c)
    /\ memo[c] # NoResult
    /\ call' = [call EXCEPT ![c] = [NoCall EXCEPT !.pc = "returned", !.ret = memo[c],
                                                  !.on = now, !.memoized = TRUE]]
    /\ UNCHANGED <<query_ip, now, cache, memo>>
    /\ OnlyLookup

\* get_ip_info(ip) entered
GetIpInfo(c) ==
    /\ AtRest(c)
    /\ memo[c] = NoResult
    /\ call' = [call EXCEPT ![c] = [NoCall EXCEPT !.pc = "check", !.on = now]]
    /\ UNCHANGED <<query_ip, now, cache, memo>>
    /\ OnlyLookup

\* if not self._is_valid_ip(ip) or self._is_private_ip(ip): return {'error': ...}
RejectAddress(c) ==
    /\ call[c].pc = "check"
    /\ ~ServiceIsValidIp(query_ip) \/ ServiceIsPrivateIp(query_ip)
    /\ Return(c, ErrorInvalid, call[c])
    /\ UNCHANGED <<query_ip, now, cache>>
    /\ OnlyLookup

\* cached = self._get_cached_ip_info(ip); if cached: return cached
ReadCache(c) ==
    /\ call[c].pc = "check"
    /\ ServiceIsValidIp(query_ip) /\ ~ServiceIsPrivateIp(query_ip)
    /\ LET seen == [call[c] EXCEPT !.read = cache.kind]
       IN  IF GetCachedIpInfo(cache) # NoResult
           THEN Return(c, GetCachedIpInfo(cache), seen)
           ELSE /\ call' = [call EXCEPT ![c] = [seen EXCEPT !.pc = "request"]]
                /\ UNCHANGED memo
    /\ UNCHANGED <<query_ip, now, cache>>
    /\ OnlyLookup

\* response = self.session.get(url, timeout=5) and what follows from it
HttpGet(c) ==
    /\ call[c].pc = "request"
    /\ \E outcome \in {"ok", "status", "timeout", "failed"} :
          LET sent == [call[c] EXCEPT !.queried = TRUE]
          IN  CASE outcome = "ok" ->
                     /\ call' = [call EXCEPT ![c] = [sent EXCEPT !.pc = "store"]]
                     /\ UNCHANGED memo
                [] outcome = "status" ->
                     /\ call' = [call EXCEPT ![c] = [sent EXCEPT !.pc = "fallback"]]
                     /\ UNCHANGED memo
                [] outcome = "timeout" -> Return(c, ErrorTimeout, sent)
                [] outcome = "failed" -> Return(c, ErrorRequest, sent)
    /\ UNCHANGED <<query_ip, now, cache>>
    /\ OnlyLookup

\* _cache_ip_info: data['_cached_at'] = time.time(); open(cache_file, 'w')
CacheOpen(c) ==
    /\ call[c].pc = "store"
    /\ cache' = Emptied(c)
    /\ call' = [call EXCEPT ![c].pc = "dump", ![c].wrote = TRUE]
    /\ UNCHANGED <<query_ip, now, memo>>
    /\ OnlyLookup

\* json.dump(data, f): the text reaches the file in one write or in two; a
\* write into a file another writer has truncated meanwhile leaves no JSON
CacheDump(c) ==
    /\ call[c].pc = "dump"
    /\ \/ /\ cache' = IF cache = Emptied(c) THEN Entry("new", call[c].on) ELSE Malformed
          /\ Return(c, Info("new", call[c].on), call[c])
       \/ /\ cache' = IF cache = Emptied(c) THEN Partial(c) ELSE Malformed
          /\ call' = [call EXCEPT ![c].pc = "dump_rest"]
          /\ UNCHANGED memo
    /\ UNCHANGED <<query_ip, now>>
    /\ OnlyLookup

CacheDumpRest(c) ==
    /\ call[c].pc = "dump_rest"
    /\ cache' = IF cache = Partial(c) THEN Entry("new", call[c].on) ELSE Malformed
    /\ Return(c, Info("new", call[c].on), call[c])
    /\ UNCHANGED <<query_ip, now>>
    /\ OnlyLookup

\* return self._get_fallback_ip_info(ip): reverse DNS and ASN lookups go out
Fallback(c) ==
    /\ call[c].pc = "fallback"
    /\ Return(c, GetFallbackIpInfo(query_ip), call[c])
    /\ UNCHANGED <<query_ip, now, cache>>
    /\ OnlyLookup

\* a day passes between two lookups
Tick ==
    /\ \A c \in Callers : AtRest(c)
    /\ now < MaxDay
    /\ now' = now + 1
    /\ UNCHANGED <<query_ip, cache, memo, call>>
    /\ OnlyLookup

(* ---------------------------- blacklist checks -------------------------- *)
\* the zones outside "not listed" in one run of the DNS
MaxOddZones == 1

Zone(host, name) == [host |-> host, name |-> name]

\* BlacklistChecker.BLACKLISTS
BLACKLISTS ==
    <<Zone("zen.spamhaus.org", "Spamhaus ZEN"),
      Zone("b.barracudacentral.org", "Barracuda"),
      Zone("bl.spamcop.net", "SpamCop"),
      Zone("dnsbl.sorbs.net", "SORBS"),
      Zone("cbl.abuseat.org", "CBL"),
      Zone("psbl.surriel.com", "PSBL"),
      Zone("all.s5h.net", "S5H"),
      Zone("ix.dnsbl.manitu.net", "Manitu"),
      Zone("dnsbl-1.uceprotect.net", "UCEPROTECT-1"),
      Zone("dul.dnsbl.sorbs.net", "SORBS DUL")>>

\* the zones of IPLookupService.check_blacklists, by the keys of its dict
ServiceBlacklists ==
    <<Zone("zen.spamhaus.org", "spamhaus"),
      Zone("b.barracudacentral.org", "barracuda"),
      Zone("bl.spamcop.net", "spamcop")>>

ZonesOf(op) == IF op = "check_ip" THEN BLACKLISTS ELSE ServiceBlacklists
Hosts == {BLACKLISTS[i].host : i \in 1..Len(BLACKLISTS)}

\* what resolve() of one query does: an answer, or one of the exceptions
\* NXDOMAIN, NoAnswer, Timeout, NoNameservers (SERVFAIL), FormError
Outcomes == {"answer", "NXDOMAIN", "NoAnswer", "Timeout", "SERVFAIL", "malformed"}
DnsInputs ==
    LET odd == {S \in SUBSET Hosts : Cardinality(S) <= MaxOddZones}
        answers == UNION {[S -> Outcomes \ {"NXDOMAIN"}] : S \in odd}
    IN  {[h \in Hosts |-> IF h \in DOMAIN a THEN a[h] ELSE "NXDOMAIN"] : a \in answers}

\* BlacklistChecker._check_single_blacklist: True, False or None
CheckSingleBlacklist(outcome) ==
    IF outcome = "answer" THEN "True"
    ELSE IF outcome = "NXDOMAIN" THEN "False"
    ELSE "None"

\* IPLookupService._check_spamhaus, _check_barracuda, _check_spamcop:
\* except (NoAnswer, NXDOMAIN): return False; except Exception: return None
CheckSpamhaus(outcome) ==
    IF outcome = "answer" THEN "True"
    ELSE IF outcome \in {"NoAnswer", "NXDOMAIN"} THEN "False"
    ELSE "None"

Classify(op, outcome) ==
    IF op = "check_ip" THEN CheckSingleBlacklist(outcome) ELSE CheckSpamhaus(outcome)

\* BlacklistChecker._is_valid_public_ip
IsValidPublicIp(ip) ==
    /\ IsV4(ip) \/ IsV6(ip)
    /\ ~(IF IsV4(ip) THEN V4Private(ip) ELSE V6Private(ip))
    /\ ~IsMulticast(ip)
    /\ ~IsReserved(ip)

\* the guard of the check: _is_valid_public_ip for check_ip,
\* _is_valid_ip and not _is_private_ip for check_blacklists
Checkable(op, ip) ==
    IF op = "check_ip" THEN IsValidPublicIp(ip)
    ELSE ServiceIsValidIp(ip) /\ ~ServiceIsPrivateIp(ip)

\* a blacklist check: the method, where it is, the zones done, the queries
\* sent so far and the dict built so far (zone name -> "True"/"False"/"None")
NoCheck == [op |-> "none", pc |-> "idle", k |-> 0, asked |-> <<>>, results |-> <<>>]
BlacklistAtRest ==
    /\ dns = [h \in Hosts |-> "NXDOMAIN"]
    /\ bl = NoCheck

\* a step of a blacklist check leaves the rest alone
OnlyBlacklist == UNCHANGED <<analysisVars, lookupVars, policyVars, dnsVars, shellVars, dns>>

\* check_ip(ip) or check_blacklists(ip) entered: {} for an address that is
\* not checked, the first zone otherwise
StartCheck(op) ==
    /\ bl.pc \in {"idle", "returned"}
    /\ bl' = IF Checkable(op, query_ip)
             THEN [NoCheck EXCEPT !.op = op, !.pc = "next"]
             ELSE [NoCheck EXCEPT !.op = op, !.pc = "returned"]
    /\ OnlyBlacklist

CheckIp == StartCheck("check_ip")
CheckBlacklists == StartCheck("check_blacklists")

\* resolve(f'{reversed_ip}.{zone}', 'A') called: the query is out and the
\* caller blocks in it
Resolve ==
    /\ bl.pc = "next"
    /\ bl.k < Len(ZonesOf(bl.op))
    /\ bl' = [bl EXCEPT !.pc = "waiting",
                        !.asked = Append(@, ZonesOf(bl.op)[bl.k + 1].host)]
    /\ OnlyBlacklist

\* resolve() returns or raises: results[bl_name] = True, False or None
Resolved ==
    /\ bl.pc = "waiting"
    /\ LET zone == ZonesOf(bl.op)[bl.k + 1]
       IN  bl' = [bl EXCEPT !.pc = "next",
                            !.k = @ + 1,
                            !.results = DictSet(@, zone.name, Classify(bl.op, dns[zone.host]))]
    /\ OnlyBlacklist

\* return results
ReturnResults ==
    /\ bl.pc = "next"
    /\ bl.k = Len(ZonesOf(bl.op))
    /\ bl' = [bl EXCEPT !.pc = "returned"]
    /\ OnlyBlacklist

(* --------------------------- policy records ----------------------------- *)
MaxRecordLen == 4
MaxTokens == 3

\* str.split(): the maximal runs of characters that are not whitespace
RECURSIVE SplitWs(_)
SplitWs(s) ==
    LET starts == {i \in 1..Len(s) : ~IsSpace(s[i])}
    IN  IF starts = {} THEN <<>>
        ELSE LET b == SetMin(starts)
                 e == SetMin({j \in b..Len(s) : j = Len(s) \/ IsSpace(s[j + 1])})
             IN  <<SubSeq(s, b, e)>> \o SplitWs(SubSeq(s, e + 1, Len(s)))

\* key, value = part.split('=', 1) cut at the last "=" instead
KeyValueAtLast(part) ==
    LET i == SetMax({k \in 1..Len(part) : part[k] = "="})
    IN  [key |-> Strip(SubSeq(part, 1, i - 1)),
         value |-> Strip(SubSeq(part, i + 1, Len(part)))]

\* key, value = part.split('=', 1); key.strip(), value.strip()
KeyValue(part) ==
    LET i == SetMin({k \in 1..Len(part) : part[k] = "="})
    IN  [key |-> Strip(SubSeq(part, 1, i - 1)),
         value |-> Strip(SubSeq(part, i + 1, Len(part)))]

\* the loop of parse_dmarc_policy over dmarc_record.split(';')
RECURSIVE PolicyOfParts(_)
PolicyOfParts(parts) ==
    IF parts = <<>> THEN <<>>
    ELSE LET policy_so_far == PolicyOfParts(SubSeq(parts, 1, Len(parts) - 1))
             part == Strip(parts[Len(parts)])
         IN  IF Contains(part, "=")
             THEN DictSet(policy_so_far, KeyValue(part).key, KeyValue(part).value)
             ELSE policy_so_far

\* DNSLookupService.parse_dmarc_policy: the dict as a sequence of pairs
ParseDmarcPolicy(dmarc_record) ==
    IF dmarc_record = <<>> THEN <<>> ELSE PolicyOfParts(Split(dmarc_record, ";"))

sVEquals == <<"v", "=">>
sAll == <<"a", "l", "l">>
\* part in ['all', '+all', '-all', '~all', '?all'], without the qualifiers
IsAllTokenBare(part) == part = sAll

\* part in ['all', '+all', '-all', '~all', '?all']
IsAllToken(part) ==
    part \in {sAll, <<"+">> \o sAll, <<"-">> \o sAll, <<"~">> \o sAll, <<"?">> \o sAll}

\* the components of parse_spf_record before the first token
SpfComponents == [version |-> <<>>, mechanisms |-> <<>>, modifiers |-> <<>>, all |-> <<>>]

\* the loop of parse_spf_record over spf_record.split()
RECURSIVE ComponentsOfParts(_)
ComponentsOfParts(parts) ==
    IF parts = <<>> THEN SpfComponents
    ELSE LET components == ComponentsOfParts(SubSeq(parts, 1, Len(parts) - 1))
             part == parts[Len(parts)]
         IN  IF StartsAt(part, 1, sVEquals)
             THEN [components EXCEPT !.version = part]
             ELSE IF IsAllToken(part)
             THEN [components EXCEPT !.all = part]
             ELSE IF Contains(part, "=")
             THEN [components EXCEPT !.modifiers = Append(@, part)]
             ELSE [components EXCEPT !.mechanisms = Append(@, part)]

\* DNSLookupService.parse_spf_record: {} for an empty record (parsed FALSE)
ParseSpfRecord(spf_record) ==
    IF spf_record = <<>> THEN [parsed |-> FALSE, components |-> SpfComponents]
    ELSE [parsed |-> TRUE, components |-> ComponentsOfParts(SplitWs(spf_record))]

\* the record texts
sDmarcExample == <<"v", "=", "D", "M", "A", "R", "C", "1", ";", " ", "p", "=", "r", "e", "j", "e", "c", "t", ";", " ", "p", "c", "t", "=", "1", "0", "0">>
sSpfExample == <<"v", "=", "s", "p", "f", "1", " ", "i", "p", "4", ":", "1", "9", "2", ".", "0", ".", "2", ".", "0", "/", "2", "4", " ", "-", "a", "l", "l">>
PolicyChars == {"p", "v", "=", ";", " "}
DmarcInputs ==
    SeqsUpTo(PolicyChars, MaxRecordLen)
       \cup {sDmarcExample, <<"p", "=", "a", ";", " ", "p", "=", "b">>, <<"p", "=", "a", ";", "v", "=", "1", ";", "p", "=", "b">>, <<"p", " ", "=", " ", "a", " ", ";", "q", "=", "a", "=", "b">>, <<" ", "=", "x", ";", "p">>, <<"p", "=", "a", ";", "p", " ", ";">>}
SpfTokens == {<<"v", "=", "s", "p", "f", "1">>, sAll, <<"-", "a", "l", "l">>, <<"~", "a", "l", "l">>, <<"m", "x">>, <<"a", ":", "x">>, <<"r", "e", "d", "i", "r", "e", "c", "t", "=", "x">>,
              <<"e", "x", "p", "=", "y">>}
Separators == {<<" ">>, <<" ", " ">>}
RECURSIVE JoinWith(_, _)
JoinWith(tokens, sep) ==
    IF tokens = <<>> THEN <<>>
    ELSE IF Len(tokens) = 1 THEN tokens[1]
    ELSE tokens[1] \o sep \o JoinWith(Tail(tokens), sep)
SpfInputs ==
    {JoinWith(ts, sep) : ts \in SeqsUpTo(SpfTokens, MaxTokens), sep \in Separators}
       \cup {sSpfExample, <<" ", "v", "=", "s", "p", "f", "1", "\t", "m", "x", " ", " ", "?", "a", "l", "l", " ">>, <<"+", "a", "l", "l", " ", "-", "A", "L", "L", " ", "v", "=", "s", "p", "f", "2">>}
RecordInputs == DmarcInputs \cup SpfInputs

\* the value of one parser call
NoPolicy == [fn |-> "none", dmarc |-> <<>>, spf |-> ParseSpfRecord(<<>>)]
PolicyAtRest ==
    /\ record = <<>>
    /\ policy = NoPolicy

\* a parser call leaves the rest alone
OnlyPolicy == UNCHANGED <<analysisVars, lookupVars, blacklistVars, dnsVars, shellVars, record>>

\* parse_dmarc_policy(record) called
CallParseDmarcPolicy ==
    /\ policy.fn = "none"
    /\ policy' = [NoPolicy EXCEPT !.fn = "parse_dmarc_policy",
                                  !.dmarc = ParseDmarcPolicy(record)]
    /\ OnlyPolicy

\* parse_spf_record(record) called
CallParseSpfRecord ==
    /\ policy.fn = "none"
    /\ policy' = [NoPolicy EXCEPT !.fn = "parse_spf_record",
                                  !.spf = ParseSpfRecord(record)]
    /\ OnlyPolicy

(* --------------------------- DNS record lookups ------------------------- *)
\* a domain is the list of its labels, "a.b.com" is <<"a", "b", "com">> and
\* "a.com." is <<"a", "com", "">>; the empty string is <<>>
MaxLabels == 3
MaxCalls == 2
LabelNames == <<"mail", "eu", "corp", "example", "co", "uk">>
Suffix(k) == SubSeq(LabelNames, Len(LabelNames) - k + 1, Len(LabelNames))
DomainNames == {Suffix(k) : k \in 0..MaxLabels}
                  \cup {Suffix(k) \o <<"">> : k \in 1..(MaxLabels - 1)}
\* domain.count('.')
CountDots(domain) == Len(domain) - 1
\* '.'.join(domain.split('.')[1:])
ParentDomain(domain) == Tail(domain)

\* what self.resolver.resolve(name, 'TXT') does: answers whose first matching
\* text begins with the wanted version tag, answers without one, or raises
TxtOutcomes == {"record", "other", "NoAnswer", "NXDOMAIN", "Timeout", "NoNameservers"}
Lookups == {"get_dmarc_record", "get_spf_record"}
\* f'_dmarc.{domain}' / domain
QueryName(fn, domain) == IF fn = "get_dmarc_record" THEN <<"_dmarc">> \o domain ELSE domain

\* return values: None, or the record text found at a domain
NotFound == [kind |-> "None", at |-> <<>>]
Found(domain) == [kind |-> "record", at |-> domain]

\* no call made yet
NoTxtCall == [fn |-> "none", arg |-> <<>>, pc |-> "rest", stack |-> <<>>,
              asked |-> <<>>, ret |-> NotFound, n |-> 0]
DnsAtRest ==
    /\ txt = NoTxtCall
    /\ txt_cache = <<>>

\* a step of a record lookup leaves the rest alone
OnlyDns == UNCHANGED <<analysisVars, lookupVars, blacklistVars, policyVars, shellVars>>

Cached(fn, domain) == \E i \in 1..Len(txt_cache) : txt_cache[i].key = <<fn, domain>>
CachedValue(fn, domain) ==
    txt_cache[CHOOSE i \in 1..Len(txt_cache) : txt_cache[i].key = <<fn, domain>>].value

\* every call on the stack returns value, and lru_cache stores it for each
ReturnTxt(asked, stack, value) ==
    /\ txt' = [txt EXCEPT !.pc = "returned", !.stack = <<>>, !.asked = asked, !.ret = value]
    /\ txt_cache' = txt_cache \o [i \in 1..Len(stack) |->
                                    [key |-> <<txt.fn, stack[Len(stack) + 1 - i]>>,
                                     value |-> value]]

\* @lru_cache: a call whose argument is in the cache returns the stored value
CallTxtMemoized(fn, domain) ==
    /\ txt.pc \in {"rest", "returned"}
    /\ txt.n < MaxCalls
    /\ Cached(fn, domain)
    /\ txt' = [fn |-> fn, arg |-> domain, pc |-> "returned", stack |-> <<>>,
               asked |-> <<>>, ret |-> CachedValue(fn, domain), n |-> txt.n + 1]
    /\ UNCHANGED txt_cache
    /\ OnlyDns

\* get_dmarc_record(domain) / get_spf_record(domain) called, not in the cache
CallTxt(fn, domain) ==
    /\ txt.pc \in {"rest", "returned"}
    /\ txt.n < MaxCalls
    /\ ~Cached(fn, domain)
    /\ txt' = [fn |-> fn, arg |-> domain, pc |-> "running", stack |-> <<domain>>,
               asked |-> <<>>, ret |-> NotFound, n |-> txt.n + 1]
    /\ UNCHANGED txt_cache
    /\ OnlyDns

\* if not domain: return None
NoDomain ==
    /\ txt.pc = "running"
    /\ txt.stack[Len(txt.stack)] = <<>>
    /\ ReturnTxt(txt.asked, txt.stack, NotFound)
    /\ OnlyDns

\* the try block of get_dmarc_record and get_spf_record: one query and what
\* follows from its outcome
ResolveTxt ==
    /\ txt.pc = "running"
    /\ txt.stack[Len(txt.stack)] # <<>>
    /\ \E outcome \in TxtOutcomes :
          LET domain == txt.stack[Len(txt.stack)]
              asked == Append(txt.asked, [domain |-> domain,
                                          name |-> QueryName(txt.fn, domain),
                                          outcome |-> outcome])
          IN  IF outcome = "record" THEN ReturnTxt(asked, txt.stack, Found(domain))
              ELSE IF /\ txt.fn = "get_dmarc_record"
                      /\ outcome \in {"NoAnswer", "NXDOMAIN"}
                      /\ CountDots(domain) > 1
                   THEN IF Cached(txt.fn, ParentDomain(domain))
                        THEN ReturnTxt(asked, txt.stack,
                                       CachedValue(txt.fn, ParentDomain(domain)))
                        ELSE /\ txt' = [txt EXCEPT !.asked = asked,
                                                   !.stack = Append(@, ParentDomain(domain))]
                             /\ UNCHANGED txt_cache
              ELSE ReturnTxt(asked, txt.stack, NotFound)
    /\ OnlyDns

(* ----------------------------- desktop shell --------------------------- *)
\* the texts of the input box and of the clipboard, after strip(); "" is empty
\* and "note" has no header name in it
MaxStarts == 3
HeaderTexts == {"from: a", "received: b"}
ClipboardTexts == HeaderTexts \cup {"", "note"}

\* EmailForensicsApp.__init__: no result, the monitor off, the button enabled
NewShell == [input_text |-> "", analyze_button |-> TRUE, current_result |-> 0,
             clipboard_monitor_enabled |-> FALSE, last_clipboard_text |-> "",
             warnings |-> 0, crashed |-> FALSE]
ShellAtRest ==
    /\ shell = NewShell
    /\ threads = <<>>
    /\ events = <<>>

\* a step of the shell leaves the rest alone
OnlyShell == UNCHANGED <<analysisVars, lookupVars, blacklistVars, policyVars, dnsVars>>

\* the AnalysisThreads whose run() has not returned
Running == {i \in 1..Len(threads) : threads[i].state = "running"}

\* analyze_headers: a warning on empty text; otherwise the button is disabled
\* and a new AnalysisThread is stored in self.analysis_thread and started.
\* Dropping the last reference to the previous thread while it runs destroys
\* a running QThread: the process aborts, or the thread runs on
StartAnalysis(sh) ==
    IF sh.input_text = ""
    THEN /\ shell' = [sh EXCEPT !.warnings = IF @ < 1 THEN @ + 1 ELSE @]
         /\ UNCHANGED <<threads, events>>
    ELSE /\ Len(threads) < MaxStarts
         /\ threads' = Append(threads, [header_text |-> sh.input_text, state |-> "running",
                                      emitted |-> ""])
         /\ \/ shell' = [sh EXCEPT !.analyze_button = FALSE]
            \/ /\ Running # {}
               /\ shell' = [sh EXCEPT !.analyze_button = FALSE, !.crashed = TRUE]
         /\ UNCHANGED events

\* the user edits the input box
EditInput(text) ==
    /\ ~shell.crashed
    /\ shell.input_text # text
    /\ shell' = [shell EXCEPT !.input_text = text]
    /\ UNCHANGED <<threads, events>>
    /\ OnlyShell

\* analyze_button.clicked: a disabled button takes no click
AnalyzeButtonClicked ==
    /\ ~shell.crashed
    /\ shell.analyze_button
    /\ StartAnalysis(shell)
    /\ OnlyShell

\* analyze_action.triggered of the toolbar: the action is never disabled
ToolbarAnalyze ==
    /\ ~shell.crashed
    /\ StartAnalysis(shell)
    /\ OnlyShell

\* toggle_clipboard_monitor
ToggleClipboardMonitor ==
    /\ ~shell.crashed
    /\ shell' = [shell EXCEPT !.clipboard_monitor_enabled = ~@]
    /\ UNCHANGED <<threads, events>>
    /\ OnlyShell

\* text.lower() contains one of the header names
LooksLikeHeaders(text) == text \in HeaderTexts

\* check_clipboard on a tick of clipboard_timer, with a new text that looks
\* like headers: the text is remembered and, on Yes, imported and analyzed
CheckClipboard(text, response) ==
    /\ ~shell.crashed
    /\ shell.clipboard_monitor_enabled
    /\ text # "" /\ text # shell.last_clipboard_text
    /\ LooksLikeHeaders(text)
    /\ IF response = "Yes"
       THEN StartAnalysis([shell EXCEPT !.last_clipboard_text = text, !.input_text = text])
       ELSE /\ shell' = [shell EXCEPT !.last_clipboard_text = text]
            /\ UNCHANGED <<threads, events>>
    /\ OnlyShell

\* AnalysisThread.run returns: finished or error is emitted, and queued for
\* the GUI thread
ThreadEmits(i, name) ==
    /\ ~shell.crashed
    /\ i \in Running
    /\ threads' = [threads EXCEPT ![i].state = "emitted", ![i].emitted = name]
    /\ events' = Append(events, [thread |-> i, name |-> name])
    /\ UNCHANGED shell
    /\ OnlyShell

\* on_analysis_complete: the result is stored and shown, the button enabled
OnAnalysisComplete ==
    /\ ~shell.crashed
    /\ events # <<>> /\ Head(events).name = "finished"
    /\ shell' = [shell EXCEPT !.current_result = Head(events).thread, !.analyze_button = TRUE]
    /\ threads' = [threads EXCEPT ![Head(events).thread].state = "reported"]
    /\ events' = Tail(events)
    /\ OnlyShell

\* on_analysis_error: the button is enabled
OnAnalysisError ==
    /\ ~shell.crashed
    /\ events # <<>> /\ Head(events).name = "error"
    /\ shell' = [shell EXCEPT !.analyze_button = TRUE]
    /\ threads' = [threads EXCEPT ![Head(events).thread].state = "reported"]
    /\ events' = Tail(events)
    /\ OnlyShell

(* ------------------------------ inputs ---------------------------------- *)
\* the texts of the input box: one slice per part of the analysis
AddrChars == {"a", "B", "@"}
MaxAddrLen == 3
AddrValues == SeqsUpTo(AddrChars, MaxAddrLen)
                 \cup {<<"<", "a", "@", "B", ">">>, <<"x", " ", "<", "B", "@", "a", ">">>,
                       <<"a", "@", "B", "@", "a">>}
ReturnPathValues == {<<"a", "@", "B">>, <<"a", "@", "a">>, <<"B", "@", "a">>, <<"@", "B">>,
                     <<"a">>, <<"<", "a", "@", "B", ">">>, <<"a", "@", "B", "@", "a">>,
                     <<"a", "@", "b">>}
Optional(n, values) == {<<>>} \cup {<<Hdr(n, v)>> : v \in values}

DomainInputs ==
    {f \o rp : f \in Optional("From", AddrValues),
               rp \in Optional("Return-Path", ReturnPathValues)}

DkimValues == {<<"d", "=", "B">>, <<"d", "=", "a">>, <<"d", "=", "a", ";">>,
               <<"s", "=", "x", ";", " ", "d", "=", "B", ";">>,
               <<"d", "=", " ", ";">>, <<"d", "=", ";">>, <<"b", "d", "=", "a">>}
DkimInputs ==
    {f \o [i \in 1..Len(ds) |-> Hdr("DKIM-Signature", ds[i])] :
        f \in Optional("From", {<<"a", "@", "B">>, <<"a", "@", "a">>, <<"a">>}),
        ds \in SeqsUpTo(DkimValues, MaxDkimHeaders)}

sFail == <<"f", "a", "i", "l">>
AuthFrags == {kwSpf, <<"S", "P", "F", "=">>, kwDkim, kwDmarc, sPass,
              <<"P", "a", "s", "s">>, sFail, <<";">>, <<" ">>}
\* one "kw=status" token per mechanism, or none
Token(lower, upper) == {<<>>, lower \o sPass, lower \o <<"P", "A", "S", "S">>,
                        lower \o sFail, upper \o sPass}
AuthValues ==
    {ConcatAll(fs) : fs \in SeqsUpTo(AuthFrags, MaxAuthFrags)}
       \cup {a \o <<";", " ">> \o b \o <<" ">> \o c :
                a \in Token(kwSpf, <<"S", "P", "F", "=">>),
                b \in Token(kwDkim, <<"D", "k", "i", "m", "=">>),
                c \in Token(kwDmarc, <<"D", "M", "A", "R", "C", "=">>)}
AuthInputs == Optional("Authentication-Results", AuthValues)

RecvPrefix == <<"f", "r", "o", "m", " ", "h", " ", "b", "y", " ", "g">>
TimeTexts == {<<"?">>, <<"i", ";", "D", "1">>}
                \cup {<<"D", Digits[t + 1]>> : t \in 0..MaxTime}
                \cup {<<"D", Digits[t + 1], "z">> : t \in 0..MaxTime}
ReceivedValues == {RecvPrefix} \cup {RecvPrefix \o <<";", " ">> \o ts : ts \in TimeTexts}
LatencyValues == {<<"5">>, <<"x">>, <<"1", ".", "5">>, <<"4", "0", "0", "0">>,
                  <<"1", ":", "0", "2", ":", "0", "3">>,
                  <<"0", "1", ":", "0", "2", ":", "0", "3", ".", "5">>,
                  <<"x", " ", "7">>, <<":", ".">>,
                  <<"0", "1", ":", "0", "2", ":", "0", "3", ".", "5", "0", "0">>,
                  <<"4", "5", "0", "0", "0">>, <<"1", "2", ".", "2", "5", "0">>,
                  <<"3", "6", "0", "0">>, <<"3", "6", "0", "1">>}
LatencyName == "X-MS-Exchange-Transport-EndToEndLatency"
ReceivedBlocks(n) == {[i \in 1..Len(rs) |-> Hdr("Received", rs[i])] :
                         rs \in SeqsUpTo(ReceivedValues, n)}
RelayInputs ==
    {rs \o l : rs \in ReceivedBlocks(MaxHops),
               l \in Optional(LatencyName, {<<"5">>, <<"x">>})}
       \cup {rs \o l : rs \in ReceivedBlocks(1), l \in Optional(LatencyName, LatencyValues)}

\* Authentication-Results texts that assert a sender address, and Received
\* headers whose from clause carries an address
sOtherPublicIp == <<"1", ".", "1", ".", "1", ".", "1">>
sRelayPublicIp == <<"8", ".", "8", ".", "4", ".", "4">>
AssertedValues == {<<"c", "l", "i", "e", "n", "t", "-", "i", "p", "=">> \o sPublicIp,
                   <<"c", "l", "i", "e", "n", "t", "-", "i", "p", "=">> \o sPrivateIp,
                   <<"S", "e", "n", "d", "e", "r", " ", "I", "P", " ", "i", "s", " ">> \o <<"[">> \o sPublicIp \o <<"]">>,
                   <<"s", "e", "n", "d", "e", "r", " ", "i", "p", " ", "i", "s", " ">> \o sLoopbackIp,
                   <<"C", "L", "I", "E", "N", "T", "-", "I", "P", "=">> \o sNotAnIp}
FromIps == {sPrivateIp, sOtherPublicIp, sRelayPublicIp}
ReceivedFrom(ip, t) ==
    Hdr("Received", <<"f", "r", "o", "m", " ", "[">> \o ip \o <<"]", " ", "b", "y", " ", "g", ";", " ", "D">> \o <<Digits[t + 1]>>)
SenderIpInputs ==
    {a \o rs : a \in Optional("Authentication-Results", AssertedValues),
               rs \in {<<>>} \cup {<<ReceivedFrom(ip, 1)>> : ip \in FromIps}
                        \cup {<<ReceivedFrom(ip1, t), ReceivedFrom(ip2, 3 - t)>> :
                                 ip1 \in FromIps, ip2 \in FromIps, t \in 1..2}}

SyntaxInputs ==
    LET from == Hdr("From", <<"a", "@", "B">>)
        recv == Hdr("Received", RecvPrefix \o <<";", "D", "1">>)
        lower == Hdr("received", RecvPrefix \o <<";", "D", "2">>)
        subj == Hdr("Subject", <<"x">>)
    IN  {<<>>, <<BlankLine>>, <<BlankLine, BlankLine>>, <<JunkLine>>, <<JunkLine, from>>,
         <<from, JunkLine, recv>>, <<BlankLine, from>>, <<from, BlankLine>>,
         <<from, BlankLine, recv>>, <<recv, lower>>, <<lower, recv, from>>,
         <<subj, from, subj>>, <<from, subj, from, Hdr("From", <<"a", "@", "a">>)>>,
         <<Hdr("From", <<>>), Hdr("Subject", <<>>)>>}

Inputs == DomainInputs \cup DkimInputs \cup AuthInputs \cup RelayInputs \cup SyntaxInputs
             \cup SenderIpInputs

(* --------------------------- the analysis ------------------------------- *)
Emit(pct, message) == progress' = Append(progress, [pct |-> pct, message |-> message])

Init ==
    /\ header_text \in Inputs
    /\ pc = "Idle"
    /\ thread_text = <<>>
    /\ msg = <<>>
    /\ result = EmailParseResult
    /\ progress = <<>>
    /\ signal = <<>>
    /\ warned = FALSE
    /\ LookupAtRest /\ BlacklistAtRest /\ PolicyAtRest /\ DnsAtRest /\ ShellAtRest

\* EmailForensicsApp.analyze_headers with nothing to analyze: a warning
AnalyzeHeadersEmpty ==
    /\ pc = "Idle"
    /\ StripText(header_text) = <<>>
    /\ warned' = TRUE
    /\ UNCHANGED <<header_text, pc, thread_text, msg, result, progress, signal, serviceVars>>

\* EmailForensicsApp.analyze_headers: starts the AnalysisThread
AnalyzeHeaders ==
    /\ pc = "Idle"
    /\ StripText(header_text) # <<>>
    /\ thread_text' = StripText(header_text)
    /\ pc' = "Started"
    /\ UNCHANGED <<header_text, msg, result, progress, signal, warned, serviceVars>>

\* AnalysisThread.run up to the call of analyze
Run ==
    /\ pc = "Started"
    /\ Emit(10, "Parsing email headers...")
    /\ pc' = "Parsing"
    /\ UNCHANGED <<header_text, thread_text, msg, result, signal, warned, serviceVars>>

\* analyze: result = EmailParseResult(), msg = self.parser.parsestr(header_text)
Parse ==
    /\ pc = "Parsing"
    /\ Emit(20, "Parsing email structure...")
    /\ msg' = ParseStr(thread_text)
    /\ result' = [EmailParseResult EXCEPT !.headers = DictOf(ParseStr(thread_text))]
    /\ pc' = "ExtractingDomains"
    /\ UNCHANGED <<header_text, thread_text, signal, warned, serviceVars>>

\* the domain step reporting a percentage of a later stage
ExtractingDomainsLate ==
    /\ pc = "ExtractingDomains"
    /\ Emit(70, "Extracting domains...")
    /\ result' = [result EXCEPT !.from_domain = ExtractDomains(msg)[1],
                                !.return_path_domain = ExtractDomains(msg)[2]]
    /\ pc' = "CheckingAuthentication"
    /\ UNCHANGED <<header_text, thread_text, msg, signal, warned, serviceVars>>

\* analyze: _extract_domains
ExtractingDomains ==
    /\ pc = "ExtractingDomains"
    /\ Emit(30, "Extracting domains...")
    /\ result' = [result EXCEPT !.from_domain = ExtractDomains(msg)[1],
                                !.return_path_domain = ExtractDomains(msg)[2]]
    /\ pc' = "CheckingAuthentication"
    /\ UNCHANGED <<header_text, thread_text, msg, signal, warned, serviceVars>>

CheckingAuthentication ==
    /\ pc = "CheckingAuthentication"
    /\ Emit(40, "Checking authentication...")
    /\ result' = CheckAuthentication(msg, result)
    /\ pc' = "ReconstructingRelays"
    /\ UNCHANGED <<header_text, thread_text, msg, signal, warned, serviceVars>>

\* the relay step keeping the bottom-up numbering, without the reorder check
ReconstructingRelaysUnchecked ==
    /\ pc = "ReconstructingRelays"
    /\ Emit(60, "Analyzing relay chain...")
    /\ ~ProcessRelays(msg).raised
    /\ result' = [result EXCEPT !.relays =
                      [i \in 1..Len(MsgGetAll(msg, "Received")) |->
                          ParseReceivedHeader(Reverse(MsgGetAll(msg, "Received"))[i], i)]]
    /\ pc' = "IdentifyingSenderIP"
    /\ UNCHANGED <<header_text, thread_text, msg, signal, warned, serviceVars>>

\* analyze: _process_relays
ReconstructingRelays ==
    /\ pc = "ReconstructingRelays"
    /\ Emit(60, "Analyzing relay chain...")
    /\ ~ProcessRelays(msg).raised
    /\ result' = [result EXCEPT !.relays = ProcessRelays(msg).relays]
    /\ pc' = "IdentifyingSenderIP"
    /\ UNCHANGED <<header_text, thread_text, msg, signal, warned, serviceVars>>

\* _process_relays raises: analyze is left with the exception
ReconstructingRelaysRaises ==
    /\ pc = "ReconstructingRelays"
    /\ Emit(60, "Analyzing relay chain...")
    /\ ProcessRelays(msg).raised
    /\ pc' = "Raised"
    /\ UNCHANGED <<header_text, thread_text, msg, result, signal, warned, serviceVars>>

IdentifyingSenderIP ==
    /\ pc = "IdentifyingSenderIP"
    /\ Emit(80, "Identifying sender IP...")
    /\ result' = ExtractSenderIp(result)
    /\ pc' = "CalculatingDelays"
    /\ UNCHANGED <<header_text, thread_text, msg, signal, warned, serviceVars>>

CalculatingDelays ==
    /\ pc = "CalculatingDelays"
    /\ Emit(90, "Calculating delivery times...")
    /\ ~CalculateDelays(msg, result).raised
    /\ result' = CalculateDelays(msg, result).result
    /\ pc' = "Complete"
    /\ UNCHANGED <<header_text, thread_text, msg, signal, warned, serviceVars>>

\* _calculate_delays raises: analyze is left with the exception
CalculatingDelaysRaises ==
    /\ pc = "CalculatingDelays"
    /\ Emit(90, "Calculating delivery times...")
    /\ CalculateDelays(msg, result).raised
    /\ result' = CalculateDelays(msg, result).result
    /\ pc' = "Raised"
    /\ UNCHANGED <<header_text, thread_text, msg, signal, warned, serviceVars>>

\* analyze: the last progress event and return result
Complete ==
    /\ pc = "Complete"
    /\ Emit(100, "Analysis complete")
    /\ pc' = "Returned"
    /\ UNCHANGED <<header_text, thread_text, msg, result, signal, warned, serviceVars>>

\* AnalysisThread.run: self.finished.emit(result)
RunFinished ==
    /\ pc = "Returned"
    /\ signal' = Append(signal, "finished")
    /\ pc' = "Done"
    /\ UNCHANGED <<header_text, thread_text, msg, result, progress, warned, serviceVars>>

\* AnalysisThread.run: except Exception as e: self.error.emit(str(e))
RunError ==
    /\ pc = "Raised"
    /\ signal' = Append(signal, "error")
    /\ pc' = "Done"
    /\ UNCHANGED <<header_text, thread_text, msg, result, progress, warned, serviceVars>>

Next ==
    \/ AnalyzeHeadersEmpty
    \/ AnalyzeHeaders
    \/ Run
    \/ Parse
    \/ ExtractingDomains
    \/ CheckingAuthentication
    \/ ReconstructingRelays
    \/ ReconstructingRelaysRaises
    \/ IdentifyingSenderIP
    \/ CalculatingDelays
    \/ CalculatingDelaysRaises
    \/ Complete
    \/ RunFinished
    \/ RunError

Spec == Init /\ [][Next]_vars

(* --------------------------- specifications ----------------------------- *)
\* no analysis is running
AnalysisAtRest ==
    /\ header_text = <<>> /\ pc = "Idle" /\ thread_text = <<>> /\ msg = <<>>
    /\ result = EmailParseResult /\ progress = <<>> /\ signal = <<>> /\ warned = FALSE

\* calls of get_ip_info for one address, by two service instances
InitIp ==
    /\ query_ip \in AddrInputs
    /\ now = 0
    /\ cache \in CacheInputs
    /\ memo = [c \in Callers |-> NoResult]
    /\ call = [c \in Callers |-> NoCall]
    /\ AnalysisAtRest
    /\ BlacklistAtRest /\ PolicyAtRest /\ DnsAtRest /\ ShellAtRest

NextIp ==
    \/ \E c \in Callers : GetIpInfoMemoized(c)
    \/ \E c \in Callers : GetIpInfo(c)
    \/ \E c \in Callers : RejectAddress(c)
    \/ \E c \in Callers : ReadCache(c)
    \/ \E c \in Callers : HttpGet(c)
    \/ \E c \in Callers : CacheOpen(c)
    \/ \E c \in Callers : CacheDump(c)
    \/ \E c \in Callers : CacheDumpRest(c)
    \/ \E c \in Callers : Fallback(c)
    \/ Tick

SpecIp == InitIp /\ [][NextIp]_vars


\* the two blacklist checks of one address against one run of the DNS
InitBlacklist ==
    /\ query_ip \in AddrInputs
    /\ dns \in DnsInputs
    /\ bl = NoCheck
    /\ now = 0
    /\ cache = NoFile
    /\ memo = [c \in Callers |-> NoResult]
    /\ call = [c \in Callers |-> NoCall]
    /\ AnalysisAtRest /\ PolicyAtRest /\ DnsAtRest /\ ShellAtRest

NextBlacklist ==
    \/ CheckIp
    \/ CheckBlacklists
    \/ Resolve
    \/ Resolved
    \/ ReturnResults

SpecBlacklist == InitBlacklist /\ [][NextBlacklist]_vars

\* the two policy parsers applied to one record text
InitPolicy ==
    /\ record \in RecordInputs
    /\ policy = NoPolicy
    /\ AnalysisAtRest /\ LookupAtRest /\ BlacklistAtRest /\ DnsAtRest /\ ShellAtRest

NextPolicy ==
    \/ CallParseDmarcPolicy
    \/ CallParseSpfRecord

SpecPolicy == InitPolicy /\ [][NextPolicy]_vars

\* calls of get_dmarc_record and get_spf_record on one service instance
InitDns ==
    /\ txt = NoTxtCall
    /\ txt_cache = <<>>
    /\ AnalysisAtRest /\ LookupAtRest /\ BlacklistAtRest /\ PolicyAtRest /\ ShellAtRest

NextDns ==
    \/ \E fn \in Lookups, domain \in DomainNames : CallTxtMemoized(fn, domain)
    \/ \E fn \in Lookups, domain \in DomainNames : CallTxt(fn, domain)
    \/ NoDomain
    \/ ResolveTxt

SpecDns == InitDns /\ [][NextDns]_vars

\* the shell under the user's actions, the clipboard timer and its threads
InitShell ==
    /\ shell = NewShell
    /\ threads = <<>>
    /\ events = <<>>
    /\ AnalysisAtRest /\ LookupAtRest /\ BlacklistAtRest /\ PolicyAtRest /\ DnsAtRest

NextShell ==
    \/ \E text \in HeaderTexts \cup {""} : EditInput(text)
    \/ AnalyzeButtonClicked
    \/ ToolbarAnalyze
    \/ ToggleClipboardMonitor
    \/ \E text \in ClipboardTexts, response \in {"Yes", "No"} : CheckClipboard(text, response)
    \/ \E i \in 1..MaxStarts, name \in {"finished", "error"} : ThreadEmits(i, name)
    \/ OnAnalysisComplete
    \/ OnAnalysisError

SpecShell == InitShell /\ [][NextShell]_vars




(* ------------------------------ claims ---------------------------------- *)
AfterParse == pc \notin {"Idle", "Started", "Parsing"}
AfterDomains == AfterParse /\ pc # "ExtractingDomains"
AfterAuth == AfterDomains /\ pc # "CheckingAuthentication"
ResultReturned == pc = "Returned" \/ (pc = "Done" /\ signal = <<"finished">>)
RelaysBuilt == pc \in {"IdentifyingSenderIP", "CalculatingDelays", "Complete"} \/ ResultReturned

ReceivedHeaders == {i \in 1..Len(msg) : NameKey(msg[i].name) = "Received"}
TimeOf(header) == ParseReceivedHeader(header, 0).time_dt
\* the reorder check of _process_relays fired on the message
Reordered ==
    LET phys == MsgGetAll(msg, "Received")
        n == Len(phys)
    IN  /\ n >= 2
        /\ TimeOf(phys[n]).set /\ TimeOf(phys[n - 1]).set
        /\ TimeOf(phys[n]).aware = TimeOf(phys[n - 1]).aware
        /\ TimeOf(phys[n - 1]).t < TimeOf(phys[n]).t

\* C1: once the relay chain is built it has one hop per Received header and
\* the hop numbers read 1, 2, ..., N in list order, reordered or not.
C1_HopNumbersContiguous ==
    RelaysBuilt =>
        /\ Len(result.relays) = Cardinality(ReceivedHeaders)
        /\ \A i \in 1..Len(result.relays) : result.relays[i].hop = i

C1_Witness ==
    /\ ResultReturned
    /\ Reordered
    /\ Len(result.relays) >= 3

\* C2: every header text that passes the parse step ends with a returned
\* result: analyze never raises and the thread emits 'finished', not 'error'.
C2_AlwaysFinished ==
    /\ pc # "Raised"
    /\ pc = "Done" => signal = <<"finished">>

\* no line of the text is a header line
NotHeaderSyntax(text) == \A i \in 1..Len(text) : text[i].name = ""

\* C3: a header block that is empty or is not header syntax at all does not
\* reach Complete and no result is returned for it.
C3_BadSyntaxFails ==
    NotHeaderSyntax(header_text) =>
        /\ pc \notin {"Complete", "Returned"}
        /\ signal # <<"finished">>

StageOrder ==
    <<[pct |-> 10, message |-> "Parsing email headers..."],
      [pct |-> 20, message |-> "Parsing email structure..."],
      [pct |-> 30, message |-> "Extracting domains..."],
      [pct |-> 40, message |-> "Checking authentication..."],
      [pct |-> 60, message |-> "Analyzing relay chain..."],
      [pct |-> 80, message |-> "Identifying sender IP..."],
      [pct |-> 90, message |-> "Calculating delivery times..."],
      [pct |-> 100, message |-> "Analysis complete"]>>

\* C4: the progress events follow the fixed stage order, every percentage is
\* in 0..100 and never decreases, the 100% event comes only with a returned
\* result, and a finished run has exactly one terminal signal.
C4_ProgressOrdered ==
    /\ Len(progress) <= Len(StageOrder)
    /\ \A i \in 1..Len(progress) :
          /\ progress[i].message = StageOrder[i].message
          /\ progress[i].pct \in 0..100
          /\ i > 1 => progress[i - 1].pct <= progress[i].pct
    /\ (\E i \in 1..Len(progress) : progress[i].pct = 100) => ResultReturned
    /\ Len(signal) <= 1
    /\ (pc = "Done") = (Len(signal) = 1)
    /\ signal = <<"error">> => \A i \in 1..Len(progress) : progress[i].pct < 100
    /\ signal = <<"finished">> => Len(progress) = Len(StageOrder)

C4_Witness ==
    /\ pc = "Done"
    /\ signal = <<"error">>
    /\ Len(progress) = 7

Mechanisms ==
    {[kw |-> kwSpf, status |-> result.spf_status, flag |-> result.spf_authenticated],
     [kw |-> kwDkim, status |-> result.dkim_status, flag |-> result.dkim_authenticated],
     [kw |-> kwDmarc, status |-> result.dmarc_status, flag |-> result.dmarc_compliant]}

\* the header carries the keyword followed by a status word
HasToken(s, kw) ==
    \E i \in 1..Len(s) : StartsAt(s, i, kw) /\ i + Len(kw) <= Len(s) /\ IsAlpha(s[i + Len(kw)])

\* C5: for SPF, DKIM and DMARC the flag is true iff the extracted status is
\* 'pass' ignoring case; without the header or the token the status stays
\* 'none' and the flag false.
C5_FlagIffPass ==
    AfterAuth =>
        \A mech \in Mechanisms :
            /\ mech.flag = (LowerStr(mech.status) = sPass)
            /\ ~HasToken(MsgGet(msg, "Authentication-Results"), mech.kw) =>
                  mech.status = sNone /\ ~mech.flag

C5_Witness ==
    /\ AfterAuth
    /\ result.spf_status = <<"P", "A", "S", "S">> /\ result.spf_authenticated
    /\ result.dkim_status = sFail /\ ~result.dkim_authenticated
    /\ result.dmarc_status = sNone /\ ~result.dmarc_compliant

\* C6: spf_aligned is true iff from_domain and return_path_domain are both
\* non-empty and equal.
C6_SpfAlignedIff ==
    AfterAuth =>
        result.spf_aligned = (/\ result.from_domain # <<>>
                              /\ result.return_path_domain # <<>>
                              /\ result.from_domain = result.return_path_domain)

C6_Witness ==
    /\ AfterAuth
    /\ result.spf_aligned
    /\ MsgGet(msg, "From") # MsgGet(msg, "Return-Path")

\* C7: dkim_aligned is true iff some DKIM-Signature header of the message has
\* a d= domain equal to from_domain, for any number of such headers.
C7_DkimAlignedIff ==
    AfterAuth =>
        result.dkim_aligned =
            (\E i \in 1..Len(msg) :
                /\ msg[i].name = "DKIM-Signature"
                /\ DMatch(msg[i].value).found
                /\ Strip(DMatch(msg[i].value).g) = result.from_domain)

\* the lower-cased portion after "@" of the address of a header
LowerDomain(header) ==
    LET addr == ParseAddr(header)
    IN  IF Contains(addr, "@")
        THEN LowerStr(SubSeq(addr, SetMax({i \in 1..Len(addr) : addr[i] = "@"}) + 1, Len(addr)))
        ELSE <<>>

\* C8: from_domain and return_path_domain are the lower-cased portion after
\* "@" of the From and Return-Path address, '' without one; neither holds "@".
C8_DomainsLowerCased ==
    AfterDomains =>
        /\ result.from_domain = LowerDomain(MsgGet(msg, "From"))
        /\ result.return_path_domain = LowerDomain(MsgGet(msg, "Return-Path"))
        /\ ~Contains(result.from_domain, "@")
        /\ ~Contains(result.return_path_domain, "@")

\* C9: result.headers keeps every (name, value) pair of the input in the
\* original order, duplicate names included.
C9_HeadersKeepDuplicates ==
    AfterParse => result.headers = ParseStr(thread_text)

RECURSIVE SumStored(_)
SumStored(relays) ==
    IF relays = <<>> THEN 0 ELSE Head(relays).delay + SumStored(Tail(relays))

LatencyParses ==
    /\ \E i \in 1..Len(msg) : msg[i].name = LatencyName
    /\ ParseLatencyHeader(MsgGet(msg, LatencyName)).ok

TimestampsOrdered(relays) ==
    /\ \A i \in 1..Len(relays) : relays[i].time_dt.set
    /\ \A i \in 2..Len(relays) : relays[i - 1].time_dt.t <= relays[i].time_dt.t

\* C10: with a latency header that parses, total_delay is its value and the
\* source tag names the header; otherwise total_delay is the sum of the stored
\* hop delays under the derived tag, which is last minus first timestamp
\* when all timestamps are present and ordered; total_delay is never negative.
C10_TotalDelay ==
    ResultReturned =>
        /\ result.total_delay >= 0
        /\ IF LatencyParses
           THEN /\ result.total_delay = ParseLatencyHeader(MsgGet(msg, LatencyName)).ms
                /\ result.delay_source = "X-MS-Exchange-Transport-EndToEndLatency"
           ELSE /\ result.total_delay = SumStored(result.relays)
                /\ result.delay_source = "Calculated from Received headers"
                /\ (result.relays # <<>> /\ TimestampsOrdered(result.relays)) =>
                      result.total_delay =
                          (result.relays[Len(result.relays)].time_dt.t
                             - result.relays[1].time_dt.t) * Milli

C10_Witness ==
    /\ ResultReturned
    /\ ~LatencyParses
    /\ Len(result.relays) >= 3
    /\ TimestampsOrdered(result.relays)
    /\ result.total_delay = 2 * Milli

\* the latency header of the message, as the analysis reads it
LatencyText == MsgGet(msg, LatencyName)
IsNumber(s) == s # <<>> /\ \A k \in 1..Len(s) : IsDigit(s[k])
\* the whole value is HH:MM:SS or HH:MM:SS.fraction
IsHmsForm(s) ==
    LET p == Split(s, ":")
        q == Split(p[3], ".")
    IN  /\ Len(p) = 3
        /\ IsNumber(p[1]) /\ Len(p[1]) <= 2
        /\ IsNumber(p[2]) /\ Len(p[2]) = 2
        /\ Len(q) <= 2
        /\ IsNumber(q[1]) /\ Len(q[1]) = 2
        /\ Len(q) = 2 => IsNumber(q[2])
\* the whole value is seconds.fraction
IsDecimalForm(s) ==
    LET q == Split(s, ".")
    IN  Len(q) = 2 /\ IsNumber(q[1]) /\ IsNumber(q[2])
\* the digits after the point as thousandths, rounded down
Thousandths(f) == ToInt(SubSeq(f \o <<"0", "0", "0">>, 1, 3))
HmsValue(s) ==
    LET p == Split(s, ":")
        q == Split(p[3], ".")
    IN  (ToInt(p[1]) * 3600 + ToInt(p[2]) * 60 + ToInt(q[1])) * 1000
           + (IF Len(q) = 2 THEN Thousandths(q[2]) ELSE 0)
DecimalValue(s) ==
    LET q == Split(s, ".")
    IN  ToInt(q[1]) * 1000 + Thousandths(q[2])

\* C11: the latency header is read as HH:MM:SS[.fraction] first, then as
\* seconds.fraction, then as a bare integer n (n seconds up to 3600, n/1000
\* seconds above), and a value with no number in it is unparsable;
\* "01:02:03.500" is 3723.5 s, "45000" is 45 s, "12.250" is 12.25 s and
\* "3600" is 3600 s (delays are in milliseconds here).
C11_LatencyForms ==
    (ResultReturned /\ LatencyText # <<>>) =>
        LET s == LatencyText
            fromHeader == result.delay_source = LatencyName
        IN  /\ IsHmsForm(s) => fromHeader /\ result.total_delay = HmsValue(s)
            /\ IsDecimalForm(s) => fromHeader /\ result.total_delay = DecimalValue(s)
            /\ (IsNumber(s) /\ ToInt(s) <= 3600) =>
                  fromHeader /\ result.total_delay = ToInt(s) * 1000
            /\ (IsNumber(s) /\ ToInt(s) > 3600) =>
                  fromHeader /\ result.total_delay = ToInt(s)
            /\ (\A k \in 1..Len(s) : ~IsDigit(s[k])) =>
                  result.delay_source = "Calculated from Received headers"
            /\ s = <<"0", "1", ":", "0", "2", ":", "0", "3", ".", "5", "0", "0">> =>
                  result.total_delay = 3723500
            /\ s = <<"4", "5", "0", "0", "0">> => result.total_delay = 45000
            /\ s = <<"1", "2", ".", "2", "5", "0">> => result.total_delay = 12250
            /\ s = <<"3", "6", "0", "0">> => result.total_delay = 3600000

C11_Witness ==
    /\ ResultReturned
    /\ LatencyText = <<"4", "5", "0", "0", "0">>
    /\ result.delay_source = LatencyName
    /\ result.total_delay = 45000

\* an address no lookup applies to: not an IP address, private, loopback,
\* multicast or reserved
NotRoutable(ip) ==
    \/ ~(IsV4(ip) \/ IsV6(ip))
    \/ IsV4(ip) /\ V4Private(ip)
    \/ IsV6(ip) /\ V6Private(ip)
    \/ IsMulticast(ip)
    \/ IsReserved(ip)

\* C12: for an address that is private, loopback, multicast, otherwise
\* non-routable or not an IP address, get_ip_info, check_blacklists and
\* check_ip send no query, read and write no cache file, and return the
\* not-applicable result.
C12_NoLookupForNonRoutable ==
    NotRoutable(query_ip) =>
        /\ \A c \in Callers :
              /\ ~call[c].queried
              /\ call[c].read = "none"
              /\ ~call[c].wrote
              /\ call[c].pc = "returned" => call[c].ret = ErrorInvalid
        /\ bl.asked = <<>>
        /\ bl.results = <<>>

\* the three values of one zone: listed, not listed, indeterminate
TriState(outcome) ==
    IF outcome = "NXDOMAIN" THEN "False"
    ELSE IF outcome = "answer" THEN "True"
    ELSE "None"
ZonesDone == {i \in 1..Len(ZonesOf(bl.op)) : i <= bl.k}
ResultOf(name) ==
    {bl.results[j].value : j \in {i \in 1..Len(bl.results) : bl.results[i].name = name}}

\* C13: in both checks the result of a zone is False for NXDOMAIN, True for
\* an answer and None for everything else (timeout, SERVFAIL, no answer,
\* malformed response); a failure is never reported as False.
C13_TriStateClassification ==
    bl.op # "none" =>
        \A i \in ZonesDone :
            ResultOf(ZonesOf(bl.op)[i].name) = {TriState(dns[ZonesOf(bl.op)[i].host])}

\* C14: for a public IPv4 address a blacklist check returns only after every
\* zone of a list of at least 8 was queried, with exactly one tri-state entry
\* per zone; no answer or failure stops or skips the remaining zones.
C14_AllZonesQueried ==
    (bl.pc = "returned" /\ IsV4(query_ip) /\ ~NotRoutable(query_ip)) =>
        LET zones == ZonesOf(bl.op)
        IN  /\ Len(zones) >= 8
            /\ bl.asked = [i \in 1..Len(zones) |-> zones[i].host]
            /\ Len(bl.results) = Len(zones)
            /\ \A i \in 1..Len(zones) :
                  /\ bl.results[i].name = zones[i].name
                  /\ bl.results[i].value \in {"True", "False", "None"}

\* C15: the zones are queried concurrently: while the query to one zone is
\* outstanding and zones remain, the query to the next zone can be sent; the
\* check does not wait for an answer or timeout first.
C15_QueriesConcurrent ==
    (bl.pc = "waiting" /\ bl.k + 1 < Len(ZonesOf(bl.op))) => ENABLED Resolve

\* C16: on every call, repeated calls on one service instance included,
\* get_ip_info returns an entry it did not just fetch only when the entry is
\* younger than the expiry of 7 days; over an expired, malformed or missing
\* entry the remote lookup is attempted.
C16_CachedOnlyWhenFresh ==
    \A c \in Callers :
        call[c].pc = "returned" =>
            /\ (call[c].ret.kind = "info" /\ ~call[c].queried) =>
                  call[c].on - call[c].ret.at < ExpiryDays
            /\ call[c].read \in {"absent", "malformed", "unstamped", "empty", "partial"} =>
                  call[c].queried

\* C17: a reader of the cache file of an address that another caller is
\* writing sees the complete previous or the complete new entry, never an
\* emptied or partly written file.
C17_ReplaceOnWrite ==
    \A c \in Callers : call[c].read \notin {"empty", "partial"}

\* the segments of the record that hold a "=", with key and value
Segments == Split(record, ";")
Keyed == {i \in 1..Len(Segments) : Contains(Segments[i], "=")}
FirstEq(i) == SetMin({k \in 1..Len(Segments[i]) : Segments[i][k] = "="})
KeyOf(i) == Strip(SubSeq(Segments[i], 1, FirstEq(i) - 1))
ValueOf(i) == Strip(SubSeq(Segments[i], FirstEq(i) + 1, Len(Segments[i])))
LastWith(key) == SetMax({i \in Keyed : KeyOf(i) = key})

\* C18: parse_dmarc_policy maps the trimmed text before the first "=" of each
\* ";"-segment to the trimmed text after it, skips segments without "=", lets
\* the last segment of a key win and has exactly the keys of the record;
\* "v=DMARC1; p=reject; pct=100" gives v: DMARC1, p: reject, pct: 100.
C18_DmarcPolicy ==
    policy.fn = "parse_dmarc_policy" =>
        LET d == policy.dmarc
        IN  /\ \A i \in Keyed : \E j \in 1..Len(d) :
                  d[j].name = KeyOf(i) /\ d[j].value = ValueOf(LastWith(KeyOf(i)))
            /\ \A j \in 1..Len(d) : \E i \in Keyed : d[j].name = KeyOf(i)
            /\ \A j, k \in 1..Len(d) : d[j].name = d[k].name => j = k
            /\ record = sDmarcExample =>
                  d = <<Hdr(<<"v">>, <<"D", "M", "A", "R", "C", "1">>), Hdr(<<"p">>, <<"r", "e", "j", "e", "c", "t">>),
                        Hdr(<<"p", "c", "t">>, <<"1", "0", "0">>)>>

C18_Witness ==
    /\ policy.fn = "parse_dmarc_policy"
    /\ record = <<"p", "=", "a", ";", "v", "=", "1", ";", "p", "=", "b">>
    /\ policy.dmarc = <<Hdr(<<"p">>, <<"b">>), Hdr(<<"v">>, <<"1">>)>>

\* the classes of the tokens of an SPF record
Tokens == SplitWs(record)
IsVersion(t) == Len(t) >= 2 /\ t[1] = "v" /\ t[2] = "="
IsQualifier(t) ==
    \/ t = sAll
    \/ Len(t) = 4 /\ t[1] \in {"+", "-", "~", "?"} /\ Tail(t) = sAll
IsModifier(t) == ~IsVersion(t) /\ ~IsQualifier(t) /\ \E k \in 1..Len(t) : t[k] = "="
IsMechanism(t) == ~IsVersion(t) /\ ~IsQualifier(t) /\ ~IsModifier(t)
NumberOf(seq, t) == Cardinality({i \in 1..Len(seq) : seq[i] = t})
LastOr(seq) == IF seq = <<>> THEN <<>> ELSE seq[Len(seq)]

\* C19: parse_spf_record puts every whitespace-separated token in exactly one
\* class: version marker, all qualifier, key=value modifier, else mechanism;
\* mechanisms and modifiers keep their order and none is lost;
\* "v=spf1 ip4:192.0.2.0/24 -all" gives that one mechanism, no modifier and
\* the qualifier "-all".
C19_SpfComponents ==
    (policy.fn = "parse_spf_record" /\ record # <<>>) =>
        LET c == policy.spf.components
        IN  /\ policy.spf.parsed
            /\ c.mechanisms = SelectSeq(Tokens, IsMechanism)
            /\ c.modifiers = SelectSeq(Tokens, IsModifier)
            /\ c.all = LastOr(SelectSeq(Tokens, IsQualifier))
            /\ c.version = LastOr(SelectSeq(Tokens, IsVersion))
            /\ \A i \in 1..Len(Tokens) :
                  NumberOf(c.mechanisms, Tokens[i]) + NumberOf(c.modifiers, Tokens[i])
                     + NumberOf(SelectSeq(Tokens, IsQualifier), Tokens[i])
                     + NumberOf(SelectSeq(Tokens, IsVersion), Tokens[i])
                     = NumberOf(Tokens, Tokens[i])
            /\ record = sSpfExample =>
                  /\ c.mechanisms = <<<<"i", "p", "4", ":", "1", "9", "2", ".", "0", ".", "2", ".", "0", "/", "2", "4">>>>
                  /\ c.modifiers = <<>>
                  /\ c.all = <<"-", "a", "l", "l">>

C19_Witness ==
    /\ policy.fn = "parse_spf_record"
    /\ record = <<"m", "x", " ", "r", "e", "d", "i", "r", "e", "c", "t", "=", "x", " ", "a", ":", "x">>
    /\ policy.spf.components.mechanisms = <<<<"m", "x">>, <<"a", ":", "x">>>>
    /\ policy.spf.components.modifiers = <<<<"r", "e", "d", "i", "r", "e", "c", "t", "=", "x">>>>
    /\ policy.spf.components.all = <<>>

\* the Received headers of the message from the top of the block down
NthReceived(k) ==
    CHOOSE i \in ReceivedHeaders : Cardinality({j \in ReceivedHeaders : j <= i}) = k
TopDown == [k \in 1..Cardinality(ReceivedHeaders) |-> msg[NthReceived(k)].value]
BottomUp == [k \in 1..Len(TopDown) |-> TopDown[Len(TopDown) + 1 - k]]
\* the relay is the hop read from that header
SameHop(relay, header) ==
    LET p == ParseReceivedHeader(header, relay.hop)
    IN  /\ relay.from = p.from /\ relay.by = p.by /\ relay.with = p.with
        /\ relay.time = p.time /\ relay.time_dt = p.time_dt /\ relay.ip = p.ip
\* the second header from the bottom is stamped strictly earlier than the
\* bottom one
SecondEarlier ==
    /\ Len(BottomUp) >= 2
    /\ TimeOf(BottomUp[1]).set /\ TimeOf(BottomUp[2]).set
    /\ TimeOf(BottomUp[2]).t < TimeOf(BottomUp[1]).t

\* C20: the hops are numbered from the bottom Received header up; if and
\* only if hops 1 and 2 both have timestamps and hop 2's is strictly earlier,
\* the whole chain is reversed and renumbered; the final chain is the
\* bottom-to-top or the top-to-bottom order of the headers, nothing else.
C20_OneReorderCheck ==
    RelaysBuilt =>
        LET expected == IF SecondEarlier THEN TopDown ELSE BottomUp
        IN  /\ Len(result.relays) = Len(expected)
            /\ \A i \in 1..Len(expected) :
                  /\ result.relays[i].hop = i
                  /\ SameHop(result.relays[i], expected[i])

\* a reversed chain of three hops that is not in timestamp order
C20_Witness ==
    /\ ResultReturned
    /\ SecondEarlier
    /\ Len(result.relays) = 3
    /\ \A i \in 1..3 : SameHop(result.relays[i], TopDown[i])
    /\ \A i \in 1..3 : result.relays[i].time_dt.set
    /\ result.relays[2].time_dt.t < result.relays[1].time_dt.t

\* the delay of hop i of a chain, from the timestamps of hops i - 1 and i
DelayFromTimestamps(relays, i) ==
    IF i > 1 /\ relays[i - 1].time_dt.set /\ relays[i].time_dt.set
    THEN LET delta == (relays[i].time_dt.t - relays[i - 1].time_dt.t) * 1000
         IN  IF delta > 0 THEN delta ELSE 0
    ELSE 0

\* C21: in every result, with or without a latency header, hop 1 has delay
\* 0 and hop i > 1 of the final chain has the delay max(0, timestamp[i] -
\* timestamp[i-1]) when both timestamps are present and 0 otherwise; no
\* stored delay is negative.
C21_HopDelays ==
    ResultReturned =>
        \A i \in 1..Len(result.relays) :
            /\ result.relays[i].delay >= 0
            /\ result.relays[i].delay = DelayFromTimestamps(result.relays, i)

\* the headers of the hops of the final chain, hop 1 first
ChainHeaders == IF SecondEarlier THEN TopDown ELSE BottomUp
\* the text after the last semicolon of a header
AfterLastSemicolon(header) == Strip(AfterLast(header, ";"))

\* C22: the timestamp text of a Received header is the text after its last
\* semicolon, also with several semicolons; a text that is no RFC-2822 date
\* is kept raw as the hop's time with an empty timestamp, and every header
\* gives a hop.
C22_TimestampAfterLastSemicolon ==
    RelaysBuilt =>
        /\ Len(result.relays) = Len(ChainHeaders)
        /\ \A i \in 1..Len(ChainHeaders) :
              LET text == AfterLastSemicolon(ChainHeaders[i])
              IN  Contains(ChainHeaders[i], ";") =>
                     IF IsDateText(text)
                     THEN result.relays[i].time_dt = DateTime(DigitVal(text[2]), Len(text) = 3)
                     ELSE /\ result.relays[i].time = text
                          /\ ~result.relays[i].time_dt.set

(* C23 *)
AfterSenderIp == pc \in {"CalculatingDelays", "Complete"} \/ ResultReturned
\* the text that follows "client-ip=" or "sender ip is" in the header, up to
\* the next blank or semicolon, without enclosing brackets; <<>> when there
\* is none
AssertedIp(auth) ==
    LET ls == LowerStr(auth)
        Skip(p) == SetMin({k \in p..(Len(auth) + 1) : k > Len(auth) \/ ~IsSpace(auth[k])})
        End(i) ==
            IF StartsAt(ls, i, sClientIp) THEN i + Len(sClientIp)
            ELSE IF /\ StartsAt(ls, i, sSender)
                    /\ StartsAt(ls, Skip(i + Len(sSender)), sIp)
                    /\ StartsAt(ls, Skip(Skip(i + Len(sSender)) + Len(sIp)), sIs)
                 THEN Skip(Skip(i + Len(sSender)) + Len(sIp)) + Len(sIs)
            ELSE 0
        at == {i \in 1..Len(auth) : End(i) # 0}
    IN  IF at = {} THEN <<>>
        ELSE LET p == Skip(End(SetMin(at)))
                 e == SetMin({k \in p..(Len(auth) + 1) :
                                k > Len(auth) \/ IsSpace(auth[k]) \/ auth[k] = ";"})
             IN  SelectSeq(SubSeq(auth, p, e - 1),
                           LAMBDA c : c \notin {"[", "]", "(", ")"})
ValidPublic(ip) == (IsV4(ip) /\ ~V4Private(ip)) \/ (IsV6(ip) /\ ~V6Private(ip))
PublicHops == {i \in 1..Len(result.relays) : ValidPublic(result.relays[i].ip)}
\* C23: once the sender address is identified, it is the address asserted in
\* Authentication-Results when that is a valid public address; otherwise the
\* source address of the lowest-numbered hop of the final chain whose source
\* is a valid public address; otherwise it is unset.  A private or malformed
\* asserted value does not prevent the fallback, and a private, loopback or
\* link-local address is never chosen.
C23_SenderIp ==
    AfterSenderIp =>
        /\ result.sender_ip =
              IF ValidPublic(AssertedIp(result.auth_results))
              THEN AssertedIp(result.auth_results)
              ELSE IF PublicHops # {} THEN result.relays[SetMin(PublicHops)].ip
              ELSE <<>>
        /\ result.sender_ip # <<>> => ValidPublic(result.sender_ip)
\* a private asserted address, a reordered chain whose first hop is private:
\* the sender address is the second hop's
C23_Witness ==
    /\ ResultReturned
    /\ AssertedIp(result.auth_results) = sPrivateIp
    /\ SecondEarlier
    /\ Len(result.relays) = 2
    /\ result.relays[1].ip = sPrivateIp
    /\ result.relays[2].ip = sRelayPublicIp
    /\ result.sender_ip = sRelayPublicIp

(* C24 *)
\* the status word after the first occurrence of the keyword in any letter case
AnyCaseStatus(auth, kw) ==
    LET at == {i \in 1..Len(auth) :
                  /\ StartsAt(LowerStr(auth), i, kw)
                  /\ i + Len(kw) <= Len(auth)
                  /\ IsAlpha(auth[i + Len(kw)])}
    IN  IF at = {} THEN NoMatch
        ELSE LET b == SetMin(at) + Len(kw)
                 e == SetMax({k \in b..Len(auth) : \A j \in b..k : IsAlpha(auth[j])})
             IN  Match(SubSeq(auth, b, e))
StatusIs(status, flag, m) ==
    /\ status = (IF m.found THEN m.g ELSE sNone)
    /\ flag = (m.found /\ LowerStr(m.g) = sPass)
\* C24: after the authentication check, the SPF, DKIM and DMARC statuses and
\* flags are those of the first spf=, dkim= and dmarc= token of the
\* Authentication-Results header, the keyword being recognised in any letter
\* case: 'SPF=pass' gives the same status and flag as 'spf=pass'.
C24_KeywordAnyCase ==
    AfterAuth =>
        /\ StatusIs(result.spf_status, result.spf_authenticated,
                    AnyCaseStatus(result.auth_results, kwSpf))
        /\ StatusIs(result.dkim_status, result.dkim_authenticated,
                    AnyCaseStatus(result.auth_results, kwDkim))
        /\ StatusIs(result.dmarc_status, result.dmarc_compliant,
                    AnyCaseStatus(result.auth_results, kwDmarc))

(* C25 *)
\* the number of labels of a domain
LabelCount(domain) == Cardinality({i \in 1..Len(domain) : domain[i] # ""})
DmarcCall == txt.fn = "get_dmarc_record" /\ txt.pc \in {"running", "returned"}
\* C25: a call of get_dmarc_record(domain) queries _dmarc.<domain> first; each
\* further query is at the parent of the domain queried before and follows a
\* NoAnswer or NXDOMAIN outcome; a DMARC record that is found is returned and
\* ends the walk; a timeout or other DNS error ends it with None; no domain
\* with fewer than two labels is queried, and one call issues at most
\* (number of labels - 1) queries, so the walk terminates.
C25_DmarcParentWalk ==
    DmarcCall =>
        /\ txt.asked # <<>> =>
              /\ txt.asked[1].domain = txt.arg
              /\ txt.asked[1].name = <<"_dmarc">> \o txt.arg
        /\ \A i \in 2..Len(txt.asked) :
              /\ txt.asked[i].domain = Tail(txt.asked[i - 1].domain)
              /\ txt.asked[i].name = <<"_dmarc">> \o txt.asked[i].domain
              /\ txt.asked[i - 1].outcome \in {"NoAnswer", "NXDOMAIN"}
        /\ (txt.pc = "returned" /\ txt.asked # <<>>) =>
              LET last == txt.asked[Len(txt.asked)]
              IN  /\ last.outcome = "record" => txt.ret = Found(last.domain)
                  /\ last.outcome \in {"Timeout", "NoNameservers", "other"} =>
                         txt.ret = NotFound
        /\ \A i \in 1..Len(txt.asked) : LabelCount(txt.asked[i].domain) >= 2
        /\ txt.arg # <<>> => Len(txt.asked) <= LabelCount(txt.arg) - 1
        /\ txt.arg = <<>> => txt.asked = <<>>

(* C26 *)
\* the call of c went to the remote service and has returned
RemoteTried(c) == call[c].pc = "returned" /\ call[c].queried
\* C26: a call of get_ip_info that misses the cache attempts the remote
\* lookup first; when that lookup has been attempted, the call returns either
\* the remote record or, after any failure of the lookup (error status,
\* timeout, connection error), the record of the fallback sources, never an
\* error; a call answered by a fresh cache entry makes no remote lookup and
\* no fallback.
C26_FallbackOnAnyFailure ==
    \A c \in Callers :
        /\ RemoteTried(c) => call[c].ret.kind \in {"info", "fallback"}
        /\ (call[c].pc = "returned" /\ call[c].ret.kind = "fallback") => call[c].queried
        /\ (call[c].pc = "returned" /\ ~call[c].memoized /\ ~call[c].wrote
                /\ call[c].ret.kind = "info") => ~call[c].queried

(* C27 *)
\* the address lies in the range, taken as the block its prefix describes
InRange(ip, r) == InNetwork(ip, r)
ProvidersOf(ip) ==
    {cloud_ranges[p].provider : p \in {x \in 1..Len(cloud_ranges) :
        \E k \in 1..Len(cloud_ranges[x].ranges) :
            ~HostBitsSet(cloud_ranges[x].ranges[k]) /\ InRange(ip, cloud_ranges[x].ranges[k])}}
\* C27: the record of the fallback for an address inside a listed cloud range
\* that can be evaluated has an 'org' naming a provider that lists such a
\* range, and for an address inside none of them has no 'org'; a range that
\* cannot be evaluated does not stop the other ranges from being checked.
C27_CloudRangeOrg ==
    \A c \in Callers :
        (call[c].pc = "returned" /\ call[c].ret.kind = "fallback") =>
            IF ProvidersOf(query_ip) = {} THEN call[c].ret.data = ""
            ELSE call[c].ret.data \in ProvidersOf(query_ip)

(* C28 *)
\* C28: once the relay chain is built, if it has at least two hops and hop 1
\* and hop 2 both have timestamps, the timestamp of hop 1 is not later than
\* that of hop 2.
C28_FirstTwoHopsInOrder ==
    (/\ RelaysBuilt
     /\ Len(result.relays) >= 2
     /\ result.relays[1].time_dt.set
     /\ result.relays[2].time_dt.set) =>
        result.relays[1].time_dt.t <= result.relays[2].time_dt.t

(* C29 *)
TransientFailure(value) == value.kind \in {"error_timeout", "error_request"}
\* C29: on one service instance a call of get_ip_info that returns a timeout
\* or request error has issued its own remote query: a call that follows a
\* transient failure tries again and does not replay the failure of the
\* earlier call.
C29_FailureNotReplayed ==
    \A c \in Callers :
        (call[c].pc = "returned" /\ TransientFailure(call[c].ret)) =>
            call[c].queried /\ ~call[c].memoized

(* C30 *)
\* the analyses that have not yet reported finished or error to the shell
Unreported == {i \in 1..Len(threads) : threads[i].state # "reported"}
\* C30: at most one AnalysisThread is running and at most one analysis has
\* not yet reported; the Analyze button is enabled only when no analysis is
\* running; and once every analysis has reported, a stored result is that of
\* the most recently started analysis that finished.
C30_OneAnalysisAtATime ==
    /\ Cardinality(Running) <= 1
    /\ Cardinality(Unreported) <= 1
    /\ shell.analyze_button => Running = {}
    /\ (/\ Unreported = {}
        /\ threads # <<>>
        /\ threads[Len(threads)].emitted = "finished") =>
           shell.current_result = Len(threads)

====
